---- MODULE Spec2Model ----
(***************************************************************************)
(* Focus Mode (vscode-focus-mode): the FocusMode state machine, the        *)
(* UIManager snapshot/restore ledger and the DecorationManager range       *)
(* computation, modelled over an abstract VS Code host (settings store,    *)
(* command surface, context key, globalState memento, text editors).       *)
(*                                                                         *)
(* Every `await` on a host command or a settings write is one step of the  *)
(* model: the step performs the host operation (which either takes effect  *)
(* or throws without effect) together with the synchronous code around it. *)
(* Other calls, events, user changes and a process kill interleave between *)
(* steps, as they do between awaits of the single-threaded extension host. *)
(***************************************************************************)
EXTENDS FiniteSets, Integers, Sequences, TLC

\* ---------------------------------------------------------------- bounds
MaxZoom == 1          \* window.zoomLevel ranges over 0..MaxZoom
NumEditors == 2       \* text editors the window can show side by side
NumLines == 2         \* lines of every document
MaxKills == 1         \* process kills (each followed by a restart)
MaxFailures == 1      \* host commands and settings writes that report an error
MaxTimers == 2        \* timers the host can hold pending at once
MaxDimLines == 6      \* document lengths given to computeDimmedRanges on its own
MaxUpdLines == 4      \* document lengths given to updateDecorations on its own
MaxCarets == 3        \* selection carets given to updateDecorations on its own

Editors == 1..NumEditors
SingleView == {1}     \* the editor shown when the window is not split
Zooms == 0..MaxZoom
NoEditor == 0          \* vscode.window.activeTextEditor is undefined
Procs == {1, 2}       \* call frames: async calls that may be suspended at once

\* An optional value: <<>> is JavaScript's undefined, <<v>> a defined value.
Undefined == <<>>
Some(v) == <<v>>
IsDefined(o) == o # Undefined
ValueOf(o) == o[1]

VARIABLES
  \* FocusMode
  isActive, isTransitioning, disposables, selectionDebounceTimer,
  \* UIManager
  changed, settingsSnapshot, globalState,
  \* call frames of enter / exit / crashRecovery and extension activation
  frames, commandsRegistered,
  \* host: settings, focusMode.* configuration, command-toggled chrome,
  \* context key, extension memento, editors
  settings, focusModeCfg, chrome, contextKey, memento,
  activeTextEditor, visibleTextEditors, editorOptions, decorations, selections,
  lineCount, timers, pendingEvent,
  \* history: ambient state before the current session's enter, events
  pre, zoomAtExit, userChanged, kills,
  \* whether the last step was a command invoked by the user
  lastCall,
  \* errors reported by the host so far
  failures

progVars == <<isActive, isTransitioning, disposables, selectionDebounceTimer,
              changed, settingsSnapshot, globalState, frames, commandsRegistered>>
hostVars == <<settings, focusModeCfg, chrome, contextKey, memento,
              activeTextEditor, visibleTextEditors, editorOptions, decorations, selections,
              lineCount, timers, pendingEvent>>
histVars == <<pre, zoomAtExit, userChanged, kills>>
\* zoomAtExit (history): window.zoomLevel when the exit in flight was called.
vars == <<progVars, hostVars, histVars, lastCall, failures>>

\* ------------------------------------------------------- DecorationManager

\* computeDimmedRanges: walk the sorted cursor lines keeping nextStart.
RECURSIVE DimWalk(_, _, _, _)
DimWalk(cursorLines, i, nextStart, ranges) ==
  IF i > Len(cursorLines) THEN <<nextStart, ranges>>
  ELSE LET cursorLine == cursorLines[i] IN
       DimWalk(cursorLines, i + 1, cursorLine + 1,
               IF cursorLine > nextStart
               THEN Append(ranges, <<nextStart, cursorLine - 1>>)
               ELSE ranges)

\* (variant) computeDimmedRanges without the gap after the last cursor line.
computeDimmedRangesNoTail(cursorLines, totalLines) ==
  IF totalLines = 0 THEN <<>>
  ELSE DimWalk(cursorLines, 1, 0, <<>>)[2]

computeDimmedRanges(cursorLines, totalLines) ==
  IF totalLines = 0 THEN <<>>
  ELSE LET w == DimWalk(cursorLines, 1, 0, <<>>) IN
       IF w[1] < totalLines THEN Append(w[2], <<w[1], totalLines - 1>>) ELSE w[2]

\* getCursorLines: the set of caret lines, sorted ascending.
RECURSIVE SortedSeq(_)
SortedSeq(S) ==
  IF S = {} THEN <<>>
  ELSE LET m == CHOOSE x \in S : \A y \in S : x <= y IN <<m>> \o SortedSeq(S \ {m})

\* The values of a sequence in the order of their first occurrence: the
\* iteration order of a JavaScript Set filled from it.
RECURSIVE SetOrder(_)
SetOrder(seq) ==
  IF seq = <<>> THEN <<>>
  ELSE LET front == SetOrder(SubSeq(seq, 1, Len(seq) - 1))
           last == seq[Len(seq)] IN
       IF \E i \in 1..Len(front) : front[i] = last THEN front ELSE Append(front, last)

\* (variant) getCursorLines without the sort.
getCursorLinesUnsorted(e) == SetOrder(selections[e])

getCursorLines(e) == SortedSeq({selections[e][i] : i \in 1..Len(selections[e])})

\* updateDecorations(editor): the ranges handed to editor.setDecorations.
updateDecorations(e) ==
  LET totalLines == lineCount[e] IN
  IF totalLines = 0 THEN <<>> ELSE computeDimmedRanges(getCursorLines(e), totalLines)

\* clearDecorations(editor)
clearDecorations == <<>>

\* --------------------------------------------------------------- config

LineNumberPolicies == {"off", "on", "relative", "inherit"}

\* (variant) toLineNumberStyle giving the On style for inherit.
toLineNumberStyleInheritOn(value) ==
  CASE value = "off" -> Some("Off")
    [] value = "on" -> Some("On")
    [] value = "relative" -> Some("Relative")
    [] value = "inherit" -> Some("On")

\* toLineNumberStyle: the TextEditorLineNumbersStyle, undefined for inherit.
toLineNumberStyle(value) ==
  CASE value = "off" -> Some("Off")
    [] value = "on" -> Some("On")
    [] value = "relative" -> Some("Relative")
    [] value = "inherit" -> Undefined

\* The style an editor shows when it carries no per-editor override.
StyleOfSetting(s) ==
  CASE s = "off" -> "Off" [] s = "on" -> "On"
    [] s = "relative" -> "Relative" [] s = "interval" -> "Interval"

\* ------------------------------------------------------------- UIManager

freshLedger ==
  [sideBar |-> FALSE, panel |-> FALSE, statusBar |-> FALSE, activityBar |-> FALSE,
   fullScreen |-> FALSE, centeredLayout |-> FALSE, minimap |-> FALSE, tabs |-> FALSE,
   editorActions |-> FALSE, breadcrumbs |-> FALSE, menuBar |-> FALSE,
   layoutControl |-> FALSE, lineNumbers |-> FALSE, zoom |-> FALSE]

emptySnapshot ==
  [minimapEnabled |-> Undefined, showTabs |-> Undefined,
   editorActionsLocation |-> Undefined, breadcrumbsEnabled |-> Undefined,
   menuBarVisibility |-> Undefined, layoutControlEnabled |-> Undefined,
   lineNumbers |-> Undefined, zoomLevel |-> Undefined, zoomPerWindow |-> Undefined]

\* workbench.action.zoomReset: with window.zoomPerWindow on it clears the
\* per-window override and leaves the setting alone; with it off it resets
\* window.zoomLevel to 0.
zoomReset(s) == IF s.zoomPerWindow THEN s ELSE [s EXCEPT !.zoomLevel = 0]

\* A call frame: where the call is suspended, who called restoreChrome, the
\* locals `config` and `editor` of enter and `currentZoom` of restoreChrome,
\* and (history) the exceptions thrown so far in the call (counted up to 2),
\* how many of them the host reported, and the step at which the first was thrown.
idleFrame == [pc |-> "idle", ctx |-> "none", config |-> Undefined,
              editor |-> NoEditor, currentZoom |-> Undefined,
              errors |-> 0, hostErrors |-> 0, thrownAt |-> "none"]

\* ---------------------------------------------------------- control flow

\* A frame after one more exception was thrown at step `label`.
Failed(f, label) ==
  [f EXCEPT !.errors = IF @ < 2 THEN @ + 1 ELSE 2,
            !.hostErrors = IF @ < 2 THEN @ + 1 ELSE 2,
            !.thrownAt = IF f.errors = 0 THEN label ELSE @]

\* The same for a TypeError raised by the extension's own code.
FailedInternally(f, label) ==
  [f EXCEPT !.errors = IF @ < 2 THEN @ + 1 ELSE 2,
            !.thrownAt = IF f.errors = 0 THEN label ELSE @]

\* The host reports an error (at most MaxFailures times in a run).
HostThrows == failures < MaxFailures /\ failures' = failures + 1

Advance(p, label) ==
  /\ frames' = [frames EXCEPT ![p].pc = label]
  /\ UNCHANGED <<isTransitioning, isActive, failures>>

\* hideChrome's catch: restoreChromePartial, which calls restoreChrome.
HideThrows(p, label) ==
  /\ HostThrows
  /\ frames' = [frames EXCEPT ![p] = [Failed(@, label) EXCEPT !.pc = "r_minimap",
                                                             !.ctx = "rollback"]]
  /\ UNCHANGED <<isTransitioning, isActive>>

\* (variant) restoreChrome throws and crashRecovery does not catch it.
RestoreThrowsUncaught(p, label, byHost) ==
  LET failed == IF byHost THEN Failed(frames[p], label)
                ELSE FailedInternally(frames[p], label) IN
  /\ IF byHost THEN HostThrows ELSE UNCHANGED failures
  /\ CASE frames[p].ctx = "rollback" ->
         /\ frames' = [frames EXCEPT ![p] = [failed EXCEPT !.pc = "e_catch"]]
         /\ UNCHANGED <<isTransitioning, isActive>>
    [] frames[p].ctx = "exit" ->
         /\ frames' = [frames EXCEPT ![p] = idleFrame]
         /\ isTransitioning' = FALSE
         /\ UNCHANGED isActive
    [] frames[p].ctx = "recovery" ->
         /\ frames' = [frames EXCEPT ![p] = idleFrame]
         /\ UNCHANGED <<isTransitioning, isActive>>

\* restoreChrome throws: swallowed by restoreChromePartial (hideChrome then
\* rethrows to enter's catch), caught by exit's catch (finally clears the
\* guard, isActive stays), swallowed by crashRecovery.
RestoreThrows(p, label, byHost) ==
  LET failed == IF byHost THEN Failed(frames[p], label)
                ELSE FailedInternally(frames[p], label) IN
  /\ IF byHost THEN HostThrows ELSE UNCHANGED failures
  /\ CASE frames[p].ctx = "rollback" ->
         /\ frames' = [frames EXCEPT ![p] = [failed EXCEPT !.pc = "e_catch"]]
         /\ UNCHANGED <<isTransitioning, isActive>>
    [] frames[p].ctx = "exit" ->
         /\ frames' = [frames EXCEPT ![p] = idleFrame]
         /\ isTransitioning' = FALSE
         /\ UNCHANGED isActive
    [] frames[p].ctx = "recovery" ->
         /\ frames' = [frames EXCEPT ![p] = [failed EXCEPT !.pc = "c_marker"]]
         /\ UNCHANGED <<isTransitioning, isActive>>

\* restoreChrome returns to its caller.
RestoreReturns(p) ==
  /\ UNCHANGED failures
  /\ frames' = [frames EXCEPT ![p].pc =
                  CASE frames[p].ctx = "rollback" -> "e_catch"
                    [] frames[p].ctx = "exit" -> "x_context"
                    [] frames[p].ctx = "recovery" -> "c_marker"]
  /\ UNCHANGED <<isTransitioning, isActive>>

\* --------------------------------------------------- UIManager.hideChrome

ConfigOf(p) == ValueOf(frames[p].config)

\* (variant) a deterministic-tier block that writes the target value and sets
\* the flag whatever the current value is.
HideSettingAlways(p, label, next, key, ledgerKey, target, requested) ==
  /\ frames[p].pc = label
  /\ lastCall' = "none"
  /\ IF requested
     THEN /\ settingsSnapshot' = [settingsSnapshot EXCEPT ![key] = Some(settings[key])]
          /\ \/ /\ settings' = [settings EXCEPT ![key] = target]
                /\ changed' = [changed EXCEPT ![ledgerKey] = TRUE]
                /\ Advance(p, next)
             \/ /\ UNCHANGED <<settings, changed>>
                /\ HideThrows(p, label)
     ELSE /\ UNCHANGED <<settingsSnapshot, settings, changed>>
          /\ Advance(p, next)
  /\ UNCHANGED <<disposables, selectionDebounceTimer, globalState, commandsRegistered,
                 focusModeCfg, chrome, contextKey, memento, activeTextEditor,
                 visibleTextEditors, editorOptions, decorations, selections, lineCount,
                 timers, pendingEvent, histVars>>

\* One deterministic-tier block of hideChrome: snapshot the setting, and
\* write the target value unless the setting already has it.
HideSetting(p, label, next, key, ledgerKey, target, requested) ==
  /\ frames[p].pc = label
  /\ lastCall' = "none"
  /\ IF requested
     THEN /\ settingsSnapshot' = [settingsSnapshot EXCEPT ![key] = Some(settings[key])]
          /\ IF settings[key] # target
             THEN \/ /\ settings' = [settings EXCEPT ![key] = target]
                     /\ changed' = [changed EXCEPT ![ledgerKey] = TRUE]
                     /\ Advance(p, next)
                  \/ /\ UNCHANGED <<settings, changed>>
                     /\ HideThrows(p, label)
             ELSE /\ UNCHANGED <<settings, changed>>
                  /\ Advance(p, next)
     ELSE /\ UNCHANGED <<settingsSnapshot, settings, changed>>
          /\ Advance(p, next)
  /\ UNCHANGED <<disposables, selectionDebounceTimer, globalState, commandsRegistered,
                 focusModeCfg, chrome, contextKey, memento, activeTextEditor,
                 visibleTextEditors, editorOptions, decorations, selections, lineCount, timers, pendingEvent, histVars>>

h_minimap(p) ==
  HideSetting(p, "h_minimap", "h_tabs", "minimapEnabled", "minimap", FALSE,
              ConfigOf(p).hideMinimap)
h_tabs(p) ==
  HideSetting(p, "h_tabs", "h_editorActions", "showTabs", "tabs", "none", TRUE)
h_editorActions(p) ==
  HideSetting(p, "h_editorActions", "h_breadcrumbs", "editorActionsLocation",
              "editorActions", "hidden", TRUE)
h_breadcrumbs(p) ==
  HideSetting(p, "h_breadcrumbs", "h_menuBar", "breadcrumbsEnabled", "breadcrumbs",
              FALSE, TRUE)
h_menuBar(p) ==
  HideSetting(p, "h_menuBar", "h_layoutControl", "menuBarVisibility", "menuBar",
              "hidden", TRUE)
h_layoutControl(p) ==
  HideSetting(p, "h_layoutControl", "h_zoomReset", "layoutControlEnabled",
              "layoutControl", FALSE, TRUE)

\* (variant) the zoom block issuing zoomReset before it snapshots.
h_zoomResetThenCapture(p) ==
  /\ frames[p].pc = "h_zoomReset"
  /\ lastCall' = "none"
  /\ settingsSnapshot' = [settingsSnapshot EXCEPT
                            !.zoomLevel = Some(zoomReset(settings).zoomLevel),
                            !.zoomPerWindow = Some(settings.zoomPerWindow)]
  /\ \/ /\ settings' = zoomReset(settings)
        /\ Advance(p, "h_zoomPerWindow")
     \/ /\ UNCHANGED settings
        /\ HideThrows(p, "h_zoomReset")
  /\ UNCHANGED <<disposables, selectionDebounceTimer, changed, globalState,
                 commandsRegistered, focusModeCfg, chrome, contextKey, memento,
                 activeTextEditor, visibleTextEditors, editorOptions, decorations,
                 selections, lineCount, timers, pendingEvent, histVars>>

\* Zoom block, steps 1 and 2: snapshot window.zoomLevel and
\* window.zoomPerWindow, then workbench.action.zoomReset.
h_zoomReset(p) ==
  /\ frames[p].pc = "h_zoomReset"
  /\ lastCall' = "none"
  /\ settingsSnapshot' = [settingsSnapshot EXCEPT
                            !.zoomLevel = Some(settings.zoomLevel),
                            !.zoomPerWindow = Some(settings.zoomPerWindow)]
  /\ \/ /\ settings' = zoomReset(settings)
        /\ Advance(p, "h_zoomPerWindow")
     \/ /\ UNCHANGED settings
        /\ HideThrows(p, "h_zoomReset")
  /\ UNCHANGED <<disposables, selectionDebounceTimer, changed, globalState,
                 commandsRegistered, focusModeCfg, chrome, contextKey, memento,
                 activeTextEditor, visibleTextEditors, editorOptions, decorations,
                 selections, lineCount, timers, pendingEvent, histVars>>

\* Zoom block, step 3: disable window.zoomPerWindow.
h_zoomPerWindow(p) ==
  /\ frames[p].pc = "h_zoomPerWindow"
  /\ lastCall' = "none"
  /\ IF settingsSnapshot.zoomPerWindow # Some(FALSE)
     THEN \/ /\ settings' = [settings EXCEPT !.zoomPerWindow = FALSE]
             /\ Advance(p, "h_focusZoom")
          \/ /\ UNCHANGED settings
             /\ HideThrows(p, "h_zoomPerWindow")
     ELSE /\ UNCHANGED settings
          /\ Advance(p, "h_focusZoom")
  /\ UNCHANGED <<disposables, selectionDebounceTimer, changed, settingsSnapshot,
                 globalState, commandsRegistered, focusModeCfg, chrome, contextKey,
                 memento, activeTextEditor, visibleTextEditors, editorOptions,
                 decorations, selections, lineCount, timers, pendingEvent, histVars>>

\* Zoom block, step 4: read focusMode.focusZoomLevel from this.globalState
\* and write it to window.zoomLevel. Reading through an undefined
\* this.globalState raises a TypeError.
h_focusZoom(p) ==
  /\ frames[p].pc = "h_focusZoom"
  /\ lastCall' = "none"
  /\ IF globalState = "undefined"
     THEN /\ frames' = [frames EXCEPT ![p] =
                          [FailedInternally(@, "h_focusZoom") EXCEPT
                             !.pc = "r_minimap", !.ctx = "rollback"]]
          /\ UNCHANGED <<settings, changed, isTransitioning, isActive, failures>>
     ELSE LET savedFocusZoom == memento.focusZoomLevel
              currentZoom == ValueOf(settingsSnapshot.zoomLevel) IN
          IF IsDefined(savedFocusZoom) /\ ValueOf(savedFocusZoom) # currentZoom
          THEN \/ /\ settings' = [settings EXCEPT !.zoomLevel = ValueOf(savedFocusZoom)]
                  /\ changed' = [changed EXCEPT !.zoom = TRUE]
                  /\ Advance(p, "h_sideBar")
               \/ /\ UNCHANGED <<settings, changed>>
                  /\ HideThrows(p, "h_focusZoom")
          ELSE /\ UNCHANGED <<settings, changed>>
               /\ Advance(p, "h_sideBar")
  /\ UNCHANGED <<disposables, selectionDebounceTimer, settingsSnapshot, globalState,
                 commandsRegistered, focusModeCfg, chrome, contextKey, memento,
                 activeTextEditor, visibleTextEditors, editorOptions, decorations,
                 selections, lineCount, timers, pendingEvent, histVars>>

\* (variant) a best-effort block of hideChrome that sets its ledger flag
\* only when the command changed the part.
HideCommandIfVisible(p, label, next, ledgerKey, chromeAfter, requested) ==
  /\ frames[p].pc = label
  /\ lastCall' = "none"
  /\ IF requested
     THEN \/ /\ chrome' = chromeAfter
             /\ changed' = [changed EXCEPT ![ledgerKey] = chromeAfter # chrome]
             /\ Advance(p, next)
          \/ /\ UNCHANGED <<chrome, changed>>
             /\ HideThrows(p, label)
     ELSE /\ UNCHANGED <<chrome, changed>>
          /\ Advance(p, next)
  /\ UNCHANGED <<disposables, selectionDebounceTimer, settingsSnapshot, globalState,
                 commandsRegistered, settings, focusModeCfg, contextKey, memento,
                 activeTextEditor, visibleTextEditors, editorOptions, decorations,
                 selections, lineCount, timers, pendingEvent, histVars>>

\* (variant) a best-effort block of hideChrome that invokes its command
\* whether or not the configuration requests it.
HideCommandAlways(p, label, next, ledgerKey, chromeAfter, requested) ==
  /\ frames[p].pc = label
  /\ lastCall' = "none"
  /\ \/ /\ chrome' = chromeAfter
        /\ changed' = [changed EXCEPT ![ledgerKey] = TRUE]
        /\ Advance(p, next)
     \/ /\ UNCHANGED <<chrome, changed>>
        /\ HideThrows(p, label)
  /\ UNCHANGED <<disposables, selectionDebounceTimer, settingsSnapshot, globalState,
                 commandsRegistered, settings, focusModeCfg, contextKey, memento,
                 activeTextEditor, visibleTextEditors, editorOptions, decorations,
                 selections, lineCount, timers, pendingEvent, histVars>>

\* One best-effort block of hideChrome: invoke the command, set the flag.
HideCommand(p, label, next, ledgerKey, chromeAfter, requested) ==
  /\ frames[p].pc = label
  /\ lastCall' = "none"
  /\ IF requested
     THEN \/ /\ chrome' = chromeAfter
             /\ changed' = [changed EXCEPT ![ledgerKey] = TRUE]
             /\ Advance(p, next)
          \/ /\ UNCHANGED <<chrome, changed>>
             /\ HideThrows(p, label)
     ELSE /\ UNCHANGED <<chrome, changed>>
          /\ Advance(p, next)
  /\ UNCHANGED <<disposables, selectionDebounceTimer, settingsSnapshot, globalState,
                 commandsRegistered, settings, focusModeCfg, contextKey, memento,
                 activeTextEditor, visibleTextEditors, editorOptions, decorations,
                 selections, lineCount, timers, pendingEvent, histVars>>

\* The host commands on the command-toggled chrome.
closeCommand(c, part) == [c EXCEPT ![part] = FALSE]
toggleCommand(c, part) == [c EXCEPT ![part] = ~@]

h_sideBar(p) ==
  HideCommand(p, "h_sideBar", "h_panel", "sideBar", closeCommand(chrome, "sideBar"), TRUE)
h_panel(p) ==
  HideCommand(p, "h_panel", "h_activityBar", "panel", closeCommand(chrome, "panel"), TRUE)
h_activityBar(p) ==
  HideCommand(p, "h_activityBar", "h_statusBar", "activityBar",
              toggleCommand(chrome, "activityBar"), TRUE)
h_statusBar(p) ==
  HideCommand(p, "h_statusBar", "h_fullScreen", "statusBar",
              toggleCommand(chrome, "statusBar"), TRUE)
h_fullScreen(p) ==
  HideCommand(p, "h_fullScreen", "h_centeredLayout", "fullScreen",
              toggleCommand(chrome, "fullScreen"), ConfigOf(p).fullScreen)
h_centeredLayout(p) ==
  HideCommand(p, "h_centeredLayout", "e_context", "centeredLayout",
              toggleCommand(chrome, "centeredLayout"), ConfigOf(p).centerLayout)

\* ------------------------------------------------ UIManager.restoreChrome

\* One deterministic-tier block of restoreChrome.
RestoreSetting(p, label, next, key, ledgerKey) ==
  /\ frames[p].pc = label
  /\ lastCall' = "none"
  /\ IF changed[ledgerKey] /\ IsDefined(settingsSnapshot[key])
     THEN \/ /\ settings' = [settings EXCEPT ![key] = ValueOf(settingsSnapshot[key])]
             /\ Advance(p, next)
          \/ /\ UNCHANGED settings
             /\ RestoreThrows(p, label, TRUE)
     ELSE /\ UNCHANGED settings
          /\ Advance(p, next)
  /\ UNCHANGED <<disposables, selectionDebounceTimer, changed, settingsSnapshot,
                 globalState, commandsRegistered, focusModeCfg, chrome, contextKey,
                 memento, activeTextEditor, visibleTextEditors, editorOptions,
                 decorations, selections, lineCount, timers, pendingEvent, histVars>>

r_minimap(p) == RestoreSetting(p, "r_minimap", "r_tabs", "minimapEnabled", "minimap")
r_tabs(p) == RestoreSetting(p, "r_tabs", "r_editorActions", "showTabs", "tabs")
r_editorActions(p) ==
  RestoreSetting(p, "r_editorActions", "r_breadcrumbs", "editorActionsLocation",
                 "editorActions")
r_breadcrumbs(p) ==
  RestoreSetting(p, "r_breadcrumbs", "r_menuBar", "breadcrumbsEnabled", "breadcrumbs")
r_menuBar(p) ==
  RestoreSetting(p, "r_menuBar", "r_layoutControl", "menuBarVisibility", "menuBar")
r_layoutControl(p) ==
  RestoreSetting(p, "r_layoutControl", "r_persistZoom", "layoutControlEnabled",
                 "layoutControl")

\* Zoom block, steps 1 and 2: read window.zoomLevel and persist it as
\* focusMode.focusZoomLevel through this.globalState (a TypeError when that
\* is undefined).
r_persistZoom(p) ==
  /\ frames[p].pc = "r_persistZoom"
  /\ lastCall' = "none"
  /\ IF globalState = "undefined"
     THEN /\ RestoreThrows(p, "r_persistZoom", FALSE)
          /\ UNCHANGED memento
     ELSE /\ memento' = [memento EXCEPT !.focusZoomLevel = Some(settings.zoomLevel)]
          /\ frames' = [frames EXCEPT ![p].pc = "r_zoomLevel",
                                      ![p].currentZoom = Some(settings.zoomLevel)]
          /\ UNCHANGED <<isTransitioning, isActive, failures>>
  /\ UNCHANGED <<disposables, selectionDebounceTimer, changed, settingsSnapshot,
                 globalState, commandsRegistered, settings, focusModeCfg, chrome,
                 contextKey, activeTextEditor, visibleTextEditors, editorOptions,
                 decorations, selections, lineCount, timers, pendingEvent, histVars>>

\* (variant) restoreChrome without step 3 of the zoom block.
r_zoomLevelSkipped(p) ==
  /\ frames[p].pc = "r_zoomLevel"
  /\ lastCall' = "none"
  /\ UNCHANGED settings
  /\ Advance(p, "r_zoomPerWindow")
  /\ UNCHANGED <<disposables, selectionDebounceTimer, changed, settingsSnapshot,
                 globalState, commandsRegistered, focusModeCfg, chrome, contextKey,
                 memento, activeTextEditor, visibleTextEditors, editorOptions,
                 decorations, selections, lineCount, timers, pendingEvent, histVars>>

\* Zoom block, step 3: write the snapshotted zoom back.
r_zoomLevel(p) ==
  /\ frames[p].pc = "r_zoomLevel"
  /\ lastCall' = "none"
  /\ IF /\ IsDefined(settingsSnapshot.zoomLevel)
        /\ frames[p].currentZoom # settingsSnapshot.zoomLevel
     THEN \/ /\ settings' = [settings EXCEPT
                               !.zoomLevel = ValueOf(settingsSnapshot.zoomLevel)]
             /\ Advance(p, "r_zoomPerWindow")
          \/ /\ UNCHANGED settings
             /\ RestoreThrows(p, "r_zoomLevel", TRUE)
     ELSE /\ UNCHANGED settings
          /\ Advance(p, "r_zoomPerWindow")
  /\ UNCHANGED <<disposables, selectionDebounceTimer, changed, settingsSnapshot,
                 globalState, commandsRegistered, focusModeCfg, chrome, contextKey,
                 memento, activeTextEditor, visibleTextEditors, editorOptions,
                 decorations, selections, lineCount, timers, pendingEvent, histVars>>

\* Zoom block, step 4: restore window.zoomPerWindow.
r_zoomPerWindow(p) ==
  /\ frames[p].pc = "r_zoomPerWindow"
  /\ lastCall' = "none"
  /\ IF /\ IsDefined(settingsSnapshot.zoomPerWindow)
        /\ settingsSnapshot.zoomPerWindow # Some(FALSE)
     THEN \/ /\ settings' = [settings EXCEPT
                               !.zoomPerWindow = ValueOf(settingsSnapshot.zoomPerWindow)]
             /\ Advance(p, "r_zoomReset")
          \/ /\ UNCHANGED settings
             /\ RestoreThrows(p, "r_zoomPerWindow", TRUE)
     ELSE /\ UNCHANGED settings
          /\ Advance(p, "r_zoomReset")
  /\ UNCHANGED <<disposables, selectionDebounceTimer, changed, settingsSnapshot,
                 globalState, commandsRegistered, focusModeCfg, chrome, contextKey,
                 memento, activeTextEditor, visibleTextEditors, editorOptions,
                 decorations, selections, lineCount, timers, pendingEvent, histVars>>

\* Zoom block, step 5: workbench.action.zoomReset.
r_zoomReset(p) ==
  /\ frames[p].pc = "r_zoomReset"
  /\ lastCall' = "none"
  /\ \/ /\ settings' = zoomReset(settings)
        /\ Advance(p, "r_centeredLayout")
     \/ /\ UNCHANGED settings
        /\ RestoreThrows(p, "r_zoomReset", TRUE)
  /\ UNCHANGED <<disposables, selectionDebounceTimer, changed, settingsSnapshot,
                 globalState, commandsRegistered, focusModeCfg, chrome, contextKey,
                 memento, activeTextEditor, visibleTextEditors, editorOptions,
                 decorations, selections, lineCount, timers, pendingEvent, histVars>>

\* (variant) a best-effort block of restoreChrome that does not look at the
\* ledger.
RestoreCommandUnflagged(p, label, next, ledgerKey, part) ==
  /\ frames[p].pc = label
  /\ lastCall' = "none"
  /\ \/ /\ chrome' = toggleCommand(chrome, part)
        /\ Advance(p, next)
     \/ /\ UNCHANGED chrome
        /\ RestoreThrows(p, label, TRUE)
  /\ UNCHANGED <<disposables, selectionDebounceTimer, changed, settingsSnapshot,
                 globalState, commandsRegistered, settings, focusModeCfg, contextKey,
                 memento, activeTextEditor, visibleTextEditors, editorOptions,
                 decorations, selections, lineCount, timers, pendingEvent, histVars>>

\* One best-effort block of restoreChrome: the inverse command.
RestoreCommand(p, label, next, ledgerKey, part) ==
  /\ frames[p].pc = label
  /\ lastCall' = "none"
  /\ IF changed[ledgerKey]
     THEN \/ /\ chrome' = toggleCommand(chrome, part)
             /\ Advance(p, next)
          \/ /\ UNCHANGED chrome
             /\ RestoreThrows(p, label, TRUE)
     ELSE /\ UNCHANGED chrome
          /\ Advance(p, next)
  /\ UNCHANGED <<disposables, selectionDebounceTimer, changed, settingsSnapshot,
                 globalState, commandsRegistered, settings, focusModeCfg, contextKey,
                 memento, activeTextEditor, visibleTextEditors, editorOptions,
                 decorations, selections, lineCount, timers, pendingEvent, histVars>>

r_centeredLayout(p) ==
  RestoreCommand(p, "r_centeredLayout", "r_fullScreen", "centeredLayout", "centeredLayout")
r_fullScreen(p) ==
  RestoreCommand(p, "r_fullScreen", "r_statusBar", "fullScreen", "fullScreen")
r_statusBar(p) ==
  RestoreCommand(p, "r_statusBar", "r_activityBar", "statusBar", "statusBar")
r_activityBar(p) ==
  RestoreCommand(p, "r_activityBar", "r_panel", "activityBar", "activityBar")
r_panel(p) == RestoreCommand(p, "r_panel", "r_sideBar", "panel", "panel")

\* The sidebar command, then the ledger reset, then the return.
r_sideBar(p) ==
  /\ frames[p].pc = "r_sideBar"
  /\ lastCall' = "none"
  /\ \/ /\ chrome' = IF changed.sideBar THEN toggleCommand(chrome, "sideBar") ELSE chrome
        /\ changed' = freshLedger
        /\ RestoreReturns(p)
     \/ /\ changed.sideBar
        /\ UNCHANGED <<chrome, changed>>
        /\ RestoreThrows(p, "r_sideBar", TRUE)
  /\ UNCHANGED <<disposables, selectionDebounceTimer, settingsSnapshot, globalState,
                 commandsRegistered, settings, focusModeCfg, contextKey, memento,
                 activeTextEditor, visibleTextEditors, editorOptions, decorations,
                 selections, lineCount, timers, pendingEvent, histVars>>

\* --------------------------------------- UIManager line-number operations

\* applyLineNumbers(editor, config): <<changed, settingsSnapshot, editorOptions>>
\* after the call.
applyLineNumbers(e, config, ch, snap, opts) ==
  LET style == toLineNumberStyle(config.lineNumbers) IN
  IF IsDefined(style)
  THEN <<[ch EXCEPT !.lineNumbers = TRUE],
         IF ~ch.lineNumbers
         THEN [snap EXCEPT !.lineNumbers = Some(settings.lineNumbers)] ELSE snap,
         [opts EXCEPT ![e] = ValueOf(style)]>>
  ELSE <<ch, snap, opts>>

\* restoreLineNumbers(editor): the style the editor is given, if any.
restoreLineNumbers(e, opts) ==
  IF changed.lineNumbers /\ IsDefined(settingsSnapshot.lineNumbers)
  THEN LET name == ValueOf(settingsSnapshot.lineNumbers) IN
       [opts EXCEPT ![e] = IF name \in {"off", "on", "relative"}
                           THEN StyleOfSetting(name) ELSE "On"]
  ELSE opts

\* ---------------------------------------------------------------- FocusMode

\* clearTimeout(handle): the pending timers without the one `handle` names.
clearTimeout(pending, handle) ==
  IF IsDefined(handle) THEN {t \in pending : t.id # ValueOf(handle)} ELSE pending

getConfig == focusModeCfg

\* The ambient state a session starts from (history).
Ambient == [settings |-> settings, chrome |-> chrome, editorOptions |-> editorOptions,
            decorations |-> decorations, focusZoomLevel |-> memento.focusZoomLevel,
            config |-> focusModeCfg]

enterGuard == isActive \/ isTransitioning

\* (variant) exit guarded by isActive only.
exitGuardActiveOnly == ~isActive

exitGuard == ~isActive \/ isTransitioning
toggleGuard == isTransitioning

\* (variant) enter that does not raise the reentrancy flag.
enterNoFlag(p) ==
  IF enterGuard \/ activeTextEditor = NoEditor
  THEN UNCHANGED <<progVars, hostVars, histVars, failures>>
  ELSE /\ LET config == getConfig IN
          /\ frames' = [frames EXCEPT ![p] =
                          [idleFrame EXCEPT
                             !.pc = IF config.singleEditorOnly THEN "e_join" ELSE "h_minimap",
                             !.config = Some(config),
                             !.editor = activeTextEditor]]
          /\ changed' = IF config.singleEditorOnly THEN changed ELSE freshLedger
       /\ pre' = Ambient
       /\ userChanged' = FALSE
       /\ UNCHANGED <<isActive, isTransitioning, disposables, selectionDebounceTimer,
                      settingsSnapshot, globalState, commandsRegistered, hostVars,
                      zoomAtExit, kills, failures>>

\* (variant) enter without the active-editor check.
enterNoEditorCheck(p) ==
  IF enterGuard
  THEN UNCHANGED <<progVars, hostVars, histVars, failures>>
  ELSE /\ isTransitioning' = TRUE
       /\ LET config == getConfig IN
          /\ frames' = [frames EXCEPT ![p] =
                          [idleFrame EXCEPT
                             !.pc = IF config.singleEditorOnly THEN "e_join" ELSE "h_minimap",
                             !.config = Some(config),
                             !.editor = activeTextEditor]]
          /\ changed' = IF config.singleEditorOnly THEN changed ELSE freshLedger
       /\ pre' = Ambient
       /\ userChanged' = FALSE
       /\ UNCHANGED <<isActive, disposables, selectionDebounceTimer, settingsSnapshot,
                      globalState, commandsRegistered, hostVars, zoomAtExit, kills,
                      failures>>

\* enter() up to its first await: the guard, the active-editor check, the
\* reentrancy flag, getConfig, and (unless joinAllGroups comes first) the
\* ledger reset that opens hideChrome.
enter(p) ==
  IF enterGuard \/ activeTextEditor = NoEditor
  THEN UNCHANGED <<progVars, hostVars, histVars, failures>>
  ELSE /\ isTransitioning' = TRUE
       /\ LET config == getConfig IN
          /\ frames' = [frames EXCEPT ![p] =
                          [idleFrame EXCEPT
                             !.pc = IF config.singleEditorOnly THEN "e_join" ELSE "h_minimap",
                             !.config = Some(config),
                             !.editor = activeTextEditor]]
          /\ changed' = IF config.singleEditorOnly THEN changed ELSE freshLedger
       /\ pre' = Ambient
       /\ userChanged' = FALSE
       /\ UNCHANGED <<isActive, disposables, selectionDebounceTimer, settingsSnapshot,
                      globalState, commandsRegistered, hostVars, zoomAtExit, kills,
                      failures>>

\* (variant) a failure of joinAllGroups is swallowed and hideChrome runs.
e_joinSwallowed(p) ==
  /\ frames[p].pc = "e_join"
  /\ lastCall' = "none"
  /\ \/ /\ changed' = freshLedger
        /\ Advance(p, "h_minimap")
     \/ /\ HostThrows
        /\ changed' = freshLedger
        /\ frames' = [frames EXCEPT ![p].pc = "h_minimap"]
        /\ UNCHANGED <<isTransitioning, isActive>>
  /\ UNCHANGED <<disposables, selectionDebounceTimer, settingsSnapshot, globalState,
                 commandsRegistered, hostVars, histVars>>

\* enforceSingleEditorGroup: workbench.action.joinAllGroups; then hideChrome
\* resets the ledger.
e_join(p) ==
  /\ frames[p].pc = "e_join"
  /\ lastCall' = "none"
  /\ \/ /\ changed' = freshLedger
        /\ Advance(p, "h_minimap")
     \/ /\ HostThrows
        /\ frames' = [frames EXCEPT ![p] = [Failed(@, "e_join") EXCEPT !.pc = "e_catch"]]
        /\ UNCHANGED <<changed, isTransitioning, isActive>>
  /\ UNCHANGED <<disposables, selectionDebounceTimer, settingsSnapshot, globalState,
                 commandsRegistered, hostVars, histVars>>

\* After hideChrome: applyLineNumbers, updateDecorations, setContext true,
\* the crash marker, registerListeners, isActive; finally the guard is cleared.
e_context(p) ==
  /\ frames[p].pc = "e_context"
  /\ lastCall' = "none"
  /\ LET e == frames[p].editor
         ln == applyLineNumbers(e, ConfigOf(p), changed, settingsSnapshot, editorOptions)
     IN /\ changed' = ln[1]
        /\ settingsSnapshot' = ln[2]
        /\ editorOptions' = ln[3]
        /\ decorations' = [decorations EXCEPT ![e] = updateDecorations(e)]
  /\ \/ /\ contextKey' = TRUE
        /\ memento' = [memento EXCEPT !.wasActive = TRUE]
        /\ disposables' = disposables + 4
        /\ isActive' = TRUE
        /\ isTransitioning' = FALSE
        /\ frames' = [frames EXCEPT ![p] = idleFrame]
        /\ UNCHANGED failures
     \/ /\ HostThrows
        /\ frames' = [frames EXCEPT ![p] = [Failed(@, "e_context") EXCEPT !.pc = "e_catch"]]
        /\ UNCHANGED <<contextKey, memento, disposables, isActive, isTransitioning>>
  /\ UNCHANGED <<selectionDebounceTimer, globalState, commandsRegistered, settings,
                 focusModeCfg, chrome, activeTextEditor, visibleTextEditors,
                 selections, lineCount, timers, pendingEvent, histVars>>

\* enter's catch: setContext false (which may throw itself); finally the
\* guard is cleared.
e_catch(p) ==
  /\ frames[p].pc = "e_catch"
  /\ lastCall' = "none"
  /\ \/ contextKey' = FALSE /\ UNCHANGED failures
     \/ HostThrows /\ UNCHANGED contextKey
  /\ isTransitioning' = FALSE
  /\ frames' = [frames EXCEPT ![p] = idleFrame]
  /\ UNCHANGED <<isActive, disposables, selectionDebounceTimer, changed, settingsSnapshot,
                 globalState, commandsRegistered, settings, focusModeCfg, chrome,
                 memento, activeTextEditor, visibleTextEditors, editorOptions,
                 decorations, selections, lineCount, timers, pendingEvent, histVars>>

RECURSIVE restoreAllLineNumbers(_, _)
restoreAllLineNumbers(editors, opts) ==
  IF editors = {} THEN opts
  ELSE LET e == CHOOSE x \in editors : TRUE IN
       restoreAllLineNumbers(editors \ {e}, restoreLineNumbers(e, opts))

\* (variant) exit() without disposeListeners.
exitKeepsListeners(p) ==
  IF exitGuard
  THEN UNCHANGED <<progVars, hostVars, histVars, failures>>
  ELSE /\ isTransitioning' = TRUE
       /\ timers' = clearTimeout(timers, selectionDebounceTimer)
       /\ selectionDebounceTimer' = Undefined
       /\ decorations' = [e \in Editors |->
                            IF e \in visibleTextEditors THEN clearDecorations
                            ELSE decorations[e]]
       /\ editorOptions' = restoreAllLineNumbers(visibleTextEditors, editorOptions)
       /\ frames' = [frames EXCEPT ![p] = [idleFrame EXCEPT !.pc = "r_minimap",
                                                            !.ctx = "exit"]]
       /\ UNCHANGED <<isActive, changed, settingsSnapshot, globalState,
                      commandsRegistered, settings, focusModeCfg, chrome, contextKey,
                      memento, activeTextEditor, visibleTextEditors, selections, lineCount,
                      pre, userChanged, kills, failures, disposables>>
       /\ zoomAtExit' = settings.zoomLevel

\* (variant) exit() that leaves the pending debounce timer alone.
exitKeepsTimer(p) ==
  IF exitGuard
  THEN UNCHANGED <<progVars, hostVars, histVars, failures>>
  ELSE /\ isTransitioning' = TRUE
       /\ disposables' = 0
       /\ decorations' = [e \in Editors |->
                            IF e \in visibleTextEditors THEN clearDecorations
                            ELSE decorations[e]]
       /\ editorOptions' = restoreAllLineNumbers(visibleTextEditors, editorOptions)
       /\ frames' = [frames EXCEPT ![p] = [idleFrame EXCEPT !.pc = "r_minimap",
                                                            !.ctx = "exit"]]
       /\ UNCHANGED <<isActive, changed, settingsSnapshot, globalState,
                      commandsRegistered, settings, focusModeCfg, chrome, contextKey,
                      memento, activeTextEditor, visibleTextEditors, selections, lineCount,
                      pre, userChanged, kills, failures, timers, selectionDebounceTimer>>
       /\ zoomAtExit' = settings.zoomLevel

\* exit() up to its first await: the guard, the reentrancy flag, the timer,
\* disposeListeners, and clearDecorations / restoreLineNumbers on every
\* visible editor.
exit(p) ==
  IF exitGuard
  THEN UNCHANGED <<progVars, hostVars, histVars, failures>>
  ELSE /\ isTransitioning' = TRUE
       /\ timers' = clearTimeout(timers, selectionDebounceTimer)
       /\ selectionDebounceTimer' = Undefined
       /\ disposables' = 0
       /\ decorations' = [e \in Editors |->
                            IF e \in visibleTextEditors THEN clearDecorations
                            ELSE decorations[e]]
       /\ editorOptions' = restoreAllLineNumbers(visibleTextEditors, editorOptions)
       /\ frames' = [frames EXCEPT ![p] = [idleFrame EXCEPT !.pc = "r_minimap",
                                                            !.ctx = "exit"]]
       /\ UNCHANGED <<isActive, changed, settingsSnapshot, globalState,
                      commandsRegistered, settings, focusModeCfg, chrome, contextKey,
                      memento, activeTextEditor, visibleTextEditors, selections, lineCount,
                      pre, userChanged, kills, failures>>
       /\ zoomAtExit' = settings.zoomLevel

\* (variant) exit that sets isActive false before it awaits setContext.
x_contextInactiveFirst(p) ==
  /\ frames[p].pc = "x_context"
  /\ lastCall' = "none"
  /\ isActive' = FALSE
  /\ \/ /\ contextKey' = FALSE
        /\ memento' = [memento EXCEPT !.wasActive = FALSE]
        /\ UNCHANGED failures
     \/ HostThrows /\ UNCHANGED <<contextKey, memento>>
  /\ isTransitioning' = FALSE
  /\ frames' = [frames EXCEPT ![p] = idleFrame]
  /\ UNCHANGED <<disposables, selectionDebounceTimer, changed, settingsSnapshot,
                 globalState, commandsRegistered, settings, focusModeCfg, chrome,
                 activeTextEditor, visibleTextEditors, editorOptions, decorations,
                 selections, lineCount, timers, pendingEvent, pre, userChanged, kills>>
  /\ zoomAtExit' = 0

\* After restoreChrome: setContext false, the crash marker, isActive; a
\* throw goes to exit's catch; finally the guard is cleared.
x_context(p) ==
  /\ frames[p].pc = "x_context"
  /\ lastCall' = "none"
  /\ \/ /\ contextKey' = FALSE
        /\ memento' = [memento EXCEPT !.wasActive = FALSE]
        /\ isActive' = FALSE
        /\ UNCHANGED failures
     \/ HostThrows /\ UNCHANGED <<contextKey, memento, isActive>>
  /\ isTransitioning' = FALSE
  /\ frames' = [frames EXCEPT ![p] = idleFrame]
  /\ UNCHANGED <<disposables, selectionDebounceTimer, changed, settingsSnapshot,
                 globalState, commandsRegistered, settings, focusModeCfg, chrome,
                 activeTextEditor, visibleTextEditors, editorOptions, decorations,
                 selections, lineCount, timers, pendingEvent, pre, userChanged, kills>>
  /\ zoomAtExit' = 0

toggle(p) ==
  IF toggleGuard
  THEN UNCHANGED <<progVars, hostVars, histVars, failures>>
  ELSE IF isActive THEN exit(p) ELSE enter(p)

\* ------------------------------------------- activation and crash recovery

\* (variant) activate registering the commands before it awaits
\* crashRecovery.
activateRegistersFirst(p) ==
  /\ frames[p].pc = "boot"
  /\ lastCall' = "none"
  /\ IF memento.wasActive
     THEN frames' = [frames EXCEPT ![p] = [idleFrame EXCEPT !.pc = "r_minimap",
                                                             !.ctx = "recovery"]]
     ELSE frames' = [frames EXCEPT ![p] = idleFrame]
  /\ commandsRegistered' = TRUE
  /\ UNCHANGED <<isActive, isTransitioning, disposables, selectionDebounceTimer,
                 changed, settingsSnapshot, globalState, hostVars, histVars, failures>>

\* activate(): construct FocusMode, then crashRecovery up to its first
\* await; without a marker the commands are registered at once.
activate(p) ==
  /\ frames[p].pc = "boot"
  /\ lastCall' = "none"
  /\ IF memento.wasActive
     THEN /\ frames' = [frames EXCEPT ![p] = [idleFrame EXCEPT !.pc = "r_minimap",
                                                               !.ctx = "recovery"]]
          /\ UNCHANGED commandsRegistered
     ELSE /\ frames' = [frames EXCEPT ![p] = idleFrame]
          /\ commandsRegistered' = TRUE
  /\ UNCHANGED <<isActive, isTransitioning, disposables, selectionDebounceTimer,
                 changed, settingsSnapshot, globalState, hostVars, histVars, failures>>

\* crashRecovery after restoreChrome: clear the marker.
c_marker(p) ==
  /\ frames[p].pc = "c_marker"
  /\ lastCall' = "none"
  /\ memento' = [memento EXCEPT !.wasActive = FALSE]
  /\ Advance(p, "c_context")
  /\ UNCHANGED <<disposables, selectionDebounceTimer, changed, settingsSnapshot,
                 globalState, commandsRegistered, settings, focusModeCfg, chrome,
                 contextKey, activeTextEditor, visibleTextEditors, editorOptions,
                 decorations, selections, lineCount, timers, pendingEvent, histVars>>

\* crashRecovery: setContext false; activate then registers the commands.
\* A throw rejects activate, and no command is registered.
c_context(p) ==
  /\ frames[p].pc = "c_context"
  /\ lastCall' = "none"
  /\ \/ /\ contextKey' = FALSE
        /\ commandsRegistered' = TRUE
        /\ UNCHANGED failures
     \/ HostThrows /\ UNCHANGED <<contextKey, commandsRegistered>>
  /\ frames' = [frames EXCEPT ![p] = idleFrame]
  /\ UNCHANGED <<isActive, isTransitioning, disposables, selectionDebounceTimer,
                 changed, settingsSnapshot, globalState, settings, focusModeCfg,
                 chrome, memento, activeTextEditor, visibleTextEditors, editorOptions,
                 decorations, selections, lineCount, timers, pendingEvent, histVars>>

\* No call is suspended.
Idle == \A p \in Procs : frames[p].pc = "idle"

bootFrames == [p \in Procs |-> IF p = 1 THEN [idleFrame EXCEPT !.pc = "boot"]
                               ELSE idleFrame]

\* The window is killed between calls and started again: the extension's
\* objects are built anew; settings, command-toggled chrome and the memento persist;
\* context keys, decorations and per-editor options do not.
Kill ==
  /\ kills < MaxKills
  /\ lastCall' = "none"
  /\ Idle /\ commandsRegistered
  /\ kills' = kills + 1
  /\ isActive' = FALSE
  /\ isTransitioning' = FALSE
  /\ disposables' = 0
  /\ selectionDebounceTimer' = Undefined
  /\ changed' = freshLedger
  /\ settingsSnapshot' = emptySnapshot
  /\ frames' = bootFrames
  /\ commandsRegistered' = FALSE
  /\ contextKey' = FALSE
  /\ decorations' = [e \in Editors |-> <<>>]
  /\ editorOptions' = [e \in Editors |-> StyleOfSetting(settings.lineNumbers)]
  /\ UNCHANGED <<globalState, settings, focusModeCfg, chrome, memento,
                 activeTextEditor, visibleTextEditors, selections, lineCount,
                 pre, userChanged, failures>>
  /\ timers' = {}
  /\ pendingEvent' = "none"
  /\ zoomAtExit' = 0

\* ------------------------------------------------------------ environment

\* The lowest free call frame.
FreeFrame == CHOOSE p \in Procs : frames[p].pc = "idle" /\ \A q \in Procs : q < p => frames[q].pc # "idle"

\* The focusMode.toggle command.
ToggleCommand ==
  /\ commandsRegistered
  /\ \E p \in Procs : frames[p].pc = "idle"
  /\ lastCall' = "command"
  /\ toggle(FreeFrame)
  /\ UNCHANGED pendingEvent

\* The focusMode.exit command.
ExitCommand ==
  /\ commandsRegistered
  /\ \E p \in Procs : frames[p].pc = "idle"
  /\ lastCall' = "command"
  /\ exit(FreeFrame)
  /\ UNCHANGED pendingEvent

\* The user changes the zoom (Ctrl+= / Ctrl+-) while focus mode is on: with
\* window.zoomPerWindow off the change is written to window.zoomLevel.
UserZoom ==
  /\ Idle
  /\ lastCall' = "none"
  /\ isActive
  /\ ~settings.zoomPerWindow
  /\ \E z \in Zooms \ {settings.zoomLevel} : settings' = [settings EXCEPT !.zoomLevel = z]
  /\ userChanged' = TRUE
  /\ UNCHANGED <<progVars, focusModeCfg, chrome, contextKey, memento, activeTextEditor,
                 visibleTextEditors, editorOptions, decorations, selections, lineCount, timers, pendingEvent,
                 pre, zoomAtExit, kills, failures>>

\* The ids of a set of pending timers.
TimerIds(pending) == {t.id : t \in pending}

\* setTimeout can hand out a timer id not pending in `pending`.
CanSchedule(pending) == \E i \in 1..MaxTimers : i \notin TimerIds(pending)

\* (variant) onSelectionChange without the clearTimeout.
onSelectionChangeNoCancel(e) ==
  LET id == CHOOSE i \in 1..MaxTimers :
              i \notin TimerIds(timers) /\ \A j \in 1..(i - 1) : j \in TimerIds(timers) IN
  /\ CanSchedule(timers)
  /\ timers' = timers \cup {[id |-> id, editor |-> e]}
  /\ selectionDebounceTimer' = Some(id)

\* onSelectionChange(e): cancel the pending timer, schedule a new one for
\* e.textEditor and keep its handle.
onSelectionChange(e) ==
  LET cleared == clearTimeout(timers, selectionDebounceTimer)
      id == CHOOSE i \in 1..MaxTimers :
              i \notin TimerIds(cleared) /\ \A j \in 1..(i - 1) : j \in TimerIds(cleared) IN
  /\ CanSchedule(cleared)
  /\ timers' = cleared \cup {[id |-> id, editor |-> e]}
  /\ selectionDebounceTimer' = Some(id)

\* The caret moves to another line of a visible editor while the listeners
\* are registered: onDidChangeTextEditorSelection runs onSelectionChange.
SelectionEvent ==
  /\ Idle
  /\ lastCall' = "none"
  /\ pendingEvent = "none"
  /\ disposables = 4
  /\ \E e \in visibleTextEditors :
       /\ \E l \in 0..(lineCount[e] - 1) :
            /\ selections[e] # <<l>>
            /\ selections' = [selections EXCEPT ![e] = <<l>>]
       /\ onSelectionChange(e)
  /\ UNCHANGED <<isActive, isTransitioning, disposables, changed, settingsSnapshot,
                 globalState, frames, commandsRegistered, settings, focusModeCfg, chrome,
                 contextKey, memento, activeTextEditor, visibleTextEditors, editorOptions,
                 decorations, lineCount, pendingEvent, histVars, failures>>

\* A debounce timer fires: the callback of onSelectionChange.
TimerFires ==
  /\ lastCall' = "none"
  /\ \E t \in timers :
       /\ timers' = timers \ {t}
       /\ decorations' = IF isActive /\ t.editor \in visibleTextEditors
                         THEN [decorations EXCEPT ![t.editor] = updateDecorations(t.editor)]
                         ELSE decorations
  /\ UNCHANGED <<progVars, settings, focusModeCfg, chrome, contextKey, memento,
                 activeTextEditor, visibleTextEditors, editorOptions, selections,
                 lineCount, pendingEvent, histVars, failures>>

\* The user closes every editor (between calls): the editors with their
\* decorations and per-editor options are gone, and the host queues
\* onDidChangeVisibleTextEditors with an empty list.
CloseAllEditors ==
  /\ Idle
  /\ lastCall' = "none"
  /\ pendingEvent = "none"
  /\ visibleTextEditors # {}
  /\ visibleTextEditors' = {}
  /\ activeTextEditor' = NoEditor
  /\ decorations' = [e \in Editors |-> <<>>]
  /\ editorOptions' = [e \in Editors |-> StyleOfSetting(settings.lineNumbers)]
  /\ pendingEvent' = "visibleEmpty"
  /\ UNCHANGED <<progVars, settings, focusModeCfg, chrome, contextKey, memento,
                 selections, lineCount, timers, histVars, failures>>

\* The listener registerListeners adds to onDidChangeVisibleTextEditors,
\* delivered the empty list: exit when active.
onDidChangeVisibleTextEditors ==
  /\ pendingEvent = "visibleEmpty"
  /\ \E p \in Procs : frames[p].pc = "idle"
  /\ lastCall' = "none"
  /\ pendingEvent' = "none"
  /\ IF disposables = 4 /\ isActive /\ ~exitGuard
     THEN exit(FreeFrame)
     ELSE UNCHANGED <<progVars, settings, focusModeCfg, chrome, contextKey, memento,
                      activeTextEditor, visibleTextEditors, editorOptions, decorations,
                      selections, lineCount, timers, histVars, failures>>

\* The user opens the document again (between calls, no listener registered).
OpenEditor ==
  /\ Idle
  /\ lastCall' = "none"
  /\ pendingEvent = "none"
  /\ disposables = 0
  /\ visibleTextEditors = {}
  /\ visibleTextEditors' = SingleView
  /\ activeTextEditor' \in SingleView
  /\ UNCHANGED <<progVars, settings, focusModeCfg, chrome, contextKey, memento,
                 editorOptions, decorations, selections, lineCount, timers,
                 pendingEvent, histVars, failures>>

\* ------------------------------------------------------------------- Init

\* The user's settings and command-toggled chrome when the window opens:
\* for each chrome setting one profile has the value focus mode writes and
\* the other does not; one has the side bar and the panel open, the other
\* closed.
Profiles ==
  { [minimapEnabled |-> TRUE, showTabs |-> "none", editorActionsLocation |-> "default",
     breadcrumbsEnabled |-> FALSE, menuBarVisibility |-> "classic",
     layoutControlEnabled |-> FALSE, lineNumbers |-> "on", open |-> TRUE],
    [minimapEnabled |-> FALSE, showTabs |-> "multiple", editorActionsLocation |-> "hidden",
     breadcrumbsEnabled |-> TRUE, menuBarVisibility |-> "hidden",
     layoutControlEnabled |-> TRUE, lineNumbers |-> "interval", open |-> FALSE] }

SettingsOf(c, z, w) ==
  [minimapEnabled |-> c.minimapEnabled, showTabs |-> c.showTabs,
   editorActionsLocation |-> c.editorActionsLocation,
   breadcrumbsEnabled |-> c.breadcrumbsEnabled,
   menuBarVisibility |-> c.menuBarVisibility,
   layoutControlEnabled |-> c.layoutControlEnabled,
   lineNumbers |-> c.lineNumbers, zoomLevel |-> z, zoomPerWindow |-> w]

ChromeOf(c) ==
  [sideBar |-> c.open, panel |-> c.open, statusBar |-> TRUE, activityBar |-> TRUE,
   fullScreen |-> FALSE, centeredLayout |-> FALSE]

\* focusMode.* configurations: the defaults, everything optional off with
\* inherited line numbers, and a mix.
Configs ==
  { [lineNumbers |-> "off", fullScreen |-> TRUE, centerLayout |-> TRUE,
     hideMinimap |-> TRUE, singleEditorOnly |-> TRUE],
    [lineNumbers |-> "inherit", fullScreen |-> FALSE, centerLayout |-> FALSE,
     hideMinimap |-> FALSE, singleEditorOnly |-> FALSE],
    [lineNumbers |-> "relative", fullScreen |-> TRUE, centerLayout |-> FALSE,
     hideMinimap |-> TRUE, singleEditorOnly |-> FALSE] }

Init ==
  /\ isActive = FALSE
  /\ isTransitioning = FALSE
  /\ disposables = 0
  /\ selectionDebounceTimer = Undefined
  /\ changed = freshLedger
  /\ settingsSnapshot = emptySnapshot
  /\ globalState \in {"undefined", "memento"}
  /\ frames = bootFrames
  /\ commandsRegistered = FALSE
  /\ \E c \in Profiles, z \in Zooms, w \in BOOLEAN :
       /\ settings = SettingsOf(c, z, w)
       /\ chrome = ChromeOf(c)
  /\ focusModeCfg \in Configs
  /\ contextKey = FALSE
  /\ memento = [wasActive |-> FALSE, focusZoomLevel |-> Undefined]
  /\ visibleTextEditors = SingleView
  /\ activeTextEditor \in SingleView
  /\ editorOptions = [e \in Editors |-> StyleOfSetting(settings.lineNumbers)]
  /\ decorations = [e \in Editors |-> <<>>]
  /\ selections = [e \in Editors |-> <<0>>]
  /\ lineCount = [e \in Editors |-> NumLines]
  /\ timers = {}
  /\ pendingEvent = "none"
  /\ pre = Ambient
  /\ zoomAtExit = 0
  /\ userChanged = FALSE
  /\ lastCall = "none"
  /\ kills = 0
  /\ failures = 0

\* recreate(opacity): the decoration type is disposed, which takes its ranges
\* off every editor, and a new one is created.
recreate == [e \in Editors |-> <<>>]

\* onConfigChange(): when active, recreate the decoration type and, on the
\* active editor, updateDecorations and applyLineNumbers with the
\* configuration as it is now.
onConfigChange(config) ==
  IF ~isActive
  THEN UNCHANGED <<changed, settingsSnapshot, editorOptions, decorations>>
  ELSE LET editor == activeTextEditor
           ln == applyLineNumbers(editor, config, changed, settingsSnapshot, editorOptions)
       IN IF editor # NoEditor
          THEN /\ decorations' = [recreate EXCEPT ![editor] = updateDecorations(editor)]
               /\ changed' = ln[1]
               /\ settingsSnapshot' = ln[2]
               /\ editorOptions' = ln[3]
          ELSE /\ decorations' = recreate
               /\ UNCHANGED <<changed, settingsSnapshot, editorOptions>>

\* The user edits a focusMode.* setting while the listeners are registered:
\* onDidChangeConfiguration runs onConfigChange.
ConfigChange ==
  /\ Idle
  /\ lastCall' = "none"
  /\ pendingEvent = "none"
  /\ disposables = 4
  /\ \E c \in Configs \ {focusModeCfg} :
       /\ focusModeCfg' = c
       /\ onConfigChange(c)
  /\ UNCHANGED <<isActive, isTransitioning, disposables, selectionDebounceTimer,
                 globalState, frames, commandsRegistered, settings, chrome, contextKey,
                 memento, activeTextEditor, visibleTextEditors, selections, lineCount,
                 timers, pendingEvent, histVars, failures>>

\* onActiveEditorChange(editor, config), config being the one enter passed
\* to registerListeners (kept in pre.config): when active and there is an
\* editor, applyLineNumbers and updateDecorations on it.
onActiveEditorChange(editor, config) ==
  IF editor = NoEditor \/ ~isActive
  THEN UNCHANGED <<changed, settingsSnapshot, editorOptions, decorations>>
  ELSE LET ln == applyLineNumbers(editor, config, changed, settingsSnapshot, editorOptions)
       IN /\ changed' = ln[1]
          /\ settingsSnapshot' = ln[2]
          /\ editorOptions' = ln[3]
          /\ decorations' = [decorations EXCEPT ![editor] = updateDecorations(editor)]

\* The focus leaves the editors or comes back to one while the listeners
\* are registered: onDidChangeActiveTextEditor runs onActiveEditorChange.
ActiveEditorChange ==
  /\ Idle
  /\ lastCall' = "none"
  /\ pendingEvent = "none"
  /\ disposables = 4
  /\ \E editor \in (visibleTextEditors \cup {NoEditor}) \ {activeTextEditor} :
       /\ activeTextEditor' = editor
       /\ onActiveEditorChange(editor, pre.config)
  /\ UNCHANGED <<isActive, isTransitioning, disposables, selectionDebounceTimer,
                 globalState, frames, commandsRegistered, settings, focusModeCfg, chrome,
                 contextKey, memento, visibleTextEditors, selections, lineCount,
                 timers, pendingEvent, histVars, failures>>

Step(p) ==
  \/ activate(p) \/ c_marker(p) \/ c_context(p)
  \/ e_join(p) \/ e_context(p) \/ e_catch(p) \/ x_context(p)
  \/ h_minimap(p) \/ h_tabs(p) \/ h_editorActions(p) \/ h_breadcrumbs(p)
  \/ h_menuBar(p) \/ h_layoutControl(p) \/ h_zoomReset(p) \/ h_zoomPerWindow(p)
  \/ h_focusZoom(p) \/ h_sideBar(p) \/ h_panel(p) \/ h_activityBar(p)
  \/ h_statusBar(p) \/ h_fullScreen(p) \/ h_centeredLayout(p)
  \/ r_minimap(p) \/ r_tabs(p) \/ r_editorActions(p) \/ r_breadcrumbs(p)
  \/ r_menuBar(p) \/ r_layoutControl(p) \/ r_persistZoom(p) \/ r_zoomLevel(p)
  \/ r_zoomPerWindow(p) \/ r_zoomReset(p) \/ r_centeredLayout(p) \/ r_fullScreen(p)
  \/ r_statusBar(p) \/ r_activityBar(p) \/ r_panel(p) \/ r_sideBar(p)

Next ==
  \/ \E p \in Procs : Step(p)
  \/ ToggleCommand
  \/ ExitCommand
  \/ UserZoom
  \/ SelectionEvent
  \/ TimerFires
  \/ CloseAllEditors
  \/ onDidChangeVisibleTextEditors
  \/ OpenEditor
  \/ Kill

Spec == Init /\ [][Next]_vars

\* ------------------------------------- one window with all its listeners

\* The window after an activation that found no crash marker, with a
\* working memento and window.zoomPerWindow on: every profile and every
\* focusMode configuration.
SessionInit ==
  /\ isActive = FALSE
  /\ isTransitioning = FALSE
  /\ disposables = 0
  /\ selectionDebounceTimer = Undefined
  /\ changed = freshLedger
  /\ settingsSnapshot = emptySnapshot
  /\ globalState = "memento"
  /\ frames = [p \in Procs |-> idleFrame]
  /\ commandsRegistered = TRUE
  /\ \E c \in Profiles :
       /\ settings = SettingsOf(c, 0, TRUE)
       /\ chrome = ChromeOf(c)
  /\ focusModeCfg \in Configs
  /\ contextKey = FALSE
  /\ memento = [wasActive |-> FALSE, focusZoomLevel |-> Undefined]
  /\ visibleTextEditors = SingleView
  /\ activeTextEditor \in SingleView
  /\ editorOptions = [e \in Editors |-> StyleOfSetting(settings.lineNumbers)]
  /\ decorations = [e \in Editors |-> <<>>]
  /\ selections = [e \in Editors |-> <<0>>]
  /\ lineCount = [e \in Editors |-> NumLines]
  /\ timers = {}
  /\ pendingEvent = "none"
  /\ pre = Ambient
  /\ zoomAtExit = 0
  /\ userChanged = FALSE
  /\ lastCall = "none"
  /\ kills = 0
  /\ failures = 0

\* The awaited steps of enter and exit.
SessionStep(p) ==
  \/ e_join(p) \/ e_context(p) \/ e_catch(p) \/ x_context(p)
  \/ h_minimap(p) \/ h_tabs(p) \/ h_editorActions(p) \/ h_breadcrumbs(p)
  \/ h_menuBar(p) \/ h_layoutControl(p) \/ h_zoomReset(p) \/ h_zoomPerWindow(p)
  \/ h_focusZoom(p) \/ h_sideBar(p) \/ h_panel(p) \/ h_activityBar(p)
  \/ h_statusBar(p) \/ h_fullScreen(p) \/ h_centeredLayout(p)
  \/ r_minimap(p) \/ r_tabs(p) \/ r_editorActions(p) \/ r_breadcrumbs(p)
  \/ r_menuBar(p) \/ r_layoutControl(p) \/ r_persistZoom(p) \/ r_zoomLevel(p)
  \/ r_zoomPerWindow(p) \/ r_zoomReset(p) \/ r_centeredLayout(p) \/ r_fullScreen(p)
  \/ r_statusBar(p) \/ r_activityBar(p) \/ r_panel(p) \/ r_sideBar(p)

\* The commands and the four listeners of registerListeners.
SessionNext ==
  \/ \E p \in Procs : SessionStep(p)
  \/ ToggleCommand
  \/ ExitCommand
  \/ SelectionEvent
  \/ TimerFires
  \/ CloseAllEditors
  \/ onDidChangeVisibleTextEditors
  \/ OpenEditor
  \/ ConfigChange
  \/ ActiveEditorChange

SessionSpec == SessionInit /\ [][SessionNext]_vars

\* --------------------------------------------- one window, split editors

\* The window of SessionInit with both editors visible side by side and a
\* configuration that does not join the editor groups.
SplitInit ==
  /\ isActive = FALSE
  /\ isTransitioning = FALSE
  /\ disposables = 0
  /\ selectionDebounceTimer = Undefined
  /\ changed = freshLedger
  /\ settingsSnapshot = emptySnapshot
  /\ globalState = "memento"
  /\ frames = [p \in Procs |-> idleFrame]
  /\ commandsRegistered = TRUE
  /\ \E c \in Profiles :
       /\ settings = SettingsOf(c, 0, TRUE)
       /\ chrome = ChromeOf(c)
  /\ focusModeCfg \in {c \in Configs : ~c.singleEditorOnly}
  /\ contextKey = FALSE
  /\ memento = [wasActive |-> FALSE, focusZoomLevel |-> Undefined]
  /\ visibleTextEditors = Editors
  /\ activeTextEditor \in Editors
  /\ editorOptions = [e \in Editors |-> StyleOfSetting(settings.lineNumbers)]
  /\ decorations = [e \in Editors |-> <<>>]
  /\ selections = [e \in Editors |-> <<0>>]
  /\ lineCount = [e \in Editors |-> NumLines]
  /\ timers = {}
  /\ pendingEvent = "none"
  /\ pre = Ambient
  /\ zoomAtExit = 0
  /\ userChanged = FALSE
  /\ lastCall = "none"
  /\ kills = 0
  /\ failures = 0

\* The focus moves to another visible editor, or away from the editors,
\* while no listener is registered: no code of the extension runs.
FocusMoves ==
  /\ disposables = 0
  /\ pendingEvent = "none"
  /\ lastCall' = "none"
  /\ \E editor \in (visibleTextEditors \cup {NoEditor}) \ {activeTextEditor} :
       activeTextEditor' = editor
  /\ UNCHANGED <<progVars, settings, focusModeCfg, chrome, contextKey, memento,
                 visibleTextEditors, editorOptions, decorations, selections,
                 lineCount, timers, pendingEvent, histVars, failures>>

\* The awaited steps of enter (without joinAllGroups) and of exit.
SplitStep(p) ==
  \/ e_context(p) \/ e_catch(p) \/ x_context(p)
  \/ h_minimap(p) \/ h_tabs(p) \/ h_editorActions(p) \/ h_breadcrumbs(p)
  \/ h_menuBar(p) \/ h_layoutControl(p) \/ h_zoomReset(p) \/ h_zoomPerWindow(p)
  \/ h_focusZoom(p) \/ h_sideBar(p) \/ h_panel(p) \/ h_activityBar(p)
  \/ h_statusBar(p) \/ h_fullScreen(p) \/ h_centeredLayout(p)
  \/ r_minimap(p) \/ r_tabs(p) \/ r_editorActions(p) \/ r_breadcrumbs(p)
  \/ r_menuBar(p) \/ r_layoutControl(p) \/ r_persistZoom(p) \/ r_zoomLevel(p)
  \/ r_zoomPerWindow(p) \/ r_zoomReset(p) \/ r_centeredLayout(p) \/ r_fullScreen(p)
  \/ r_statusBar(p) \/ r_activityBar(p) \/ r_panel(p) \/ r_sideBar(p)

\* The toggle command, the selection and active-editor listeners, the
\* debounce timer, and the focus moving while enter or exit is suspended.
SplitNext ==
  \/ \E p \in Procs : SplitStep(p)
  \/ ToggleCommand
  \/ SelectionEvent
  \/ TimerFires
  \/ ActiveEditorChange
  \/ FocusMoves

SplitSpec == SplitInit /\ [][SplitNext]_vars

\* ------------------------------------------------------------ properties

\* The step in which the enter call of frame p returns.
EnterReturns(p) == frames[p].pc \in {"e_context", "e_catch"} /\ frames'[p].pc = "idle"

\* The step in which the exit call of frame p returns.
ExitReturns(p) == frames[p].ctx = "exit" /\ frames'[p].pc = "idle"

\* The step in which the exit call of frame p returns having run to its end.
ExitCompletes(p) == frames[p].pc = "x_context" /\ frames'[p].pc = "idle" /\ ~isActive'

\* No exception of any kind was thrown in the call of frame p, this step included.
NoHostError(p) == frames[p].hostErrors = 0 /\ failures' = failures

\* After the step, the command-toggled chrome that enter changed is as before
\* enter (a side bar or panel that was already closed was not changed by it).
ChromeRestored ==
  /\ \A part \in {"statusBar", "activityBar", "fullScreen", "centeredLayout"} :
       chrome'[part] = pre.chrome[part]
  /\ \A part \in {"sideBar", "panel"} : pre.chrome[part] => chrome'[part]

\* C1: an enter call from Inactive with an active editor, during which the host
\* reports no error, returns with the session Active, the context key true,
\* the crash marker true and the four event subscriptions registered.
C1_EnterSucceeds ==
  [][\A p \in Procs :
       EnterReturns(p) /\ NoHostError(p)
         => isActive' /\ contextKey' /\ memento'.wasActive /\ disposables' = 4]_vars

\* C2: every exit call that starts from Active returns with the session
\* Inactive, whatever errors restoreChrome or setContext raise.
C2_ExitAlwaysInactive ==
  [][\A p \in Procs : ExitReturns(p) => ~isActive']_vars

\* C3: when enter returns after one of its steps threw, the session is
\* Inactive, the context key false, no subscription registered, and settings,
\* command-toggled chrome, line-number style and decorations are as before.
C3_FailedEnterLeavesNothing ==
  [][\A p \in Procs :
       frames[p].pc = "e_catch" /\ frames'[p].pc = "idle"
         => /\ ~isActive' /\ ~contextKey' /\ disposables' = 0
            /\ settings' = pre.settings
            /\ ChromeRestored
            /\ editorOptions' = pre.editorOptions
            /\ decorations' = pre.decorations]_vars

\* The awaited steps of hideChrome, in order.
HideSteps ==
  <<"h_minimap", "h_tabs", "h_editorActions", "h_breadcrumbs", "h_menuBar",
    "h_layoutControl", "h_zoomReset", "h_zoomPerWindow", "h_focusZoom", "h_sideBar",
    "h_panel", "h_activityBar", "h_statusBar", "h_fullScreen", "h_centeredLayout">>

StepIndex(label) == CHOOSE i \in 1..Len(HideSteps) : HideSteps[i] = label

\* The last step of hideChrome that writes each setting or toggles each part.
LastWriter ==
  [minimapEnabled |-> "h_minimap", showTabs |-> "h_tabs",
   editorActionsLocation |-> "h_editorActions", breadcrumbsEnabled |-> "h_breadcrumbs",
   menuBarVisibility |-> "h_menuBar", layoutControlEnabled |-> "h_layoutControl",
   zoomPerWindow |-> "h_zoomPerWindow", zoomLevel |-> "h_focusZoom",
   sideBar |-> "h_sideBar", panel |-> "h_panel", activityBar |-> "h_activityBar",
   statusBar |-> "h_statusBar", fullScreen |-> "h_fullScreen",
   centeredLayout |-> "h_centeredLayout"]

\* All the steps of hideChrome that touch `key` ran before the step `label`.
DoneBefore(key, label) == StepIndex(LastWriter[key]) < StepIndex(label)

\* The step in which enter returns after exactly one exception, thrown by the
\* host at a step of hideChrome.
RollbackReturns(p) ==
  /\ frames[p].pc = "e_catch" /\ frames'[p].pc = "idle"
  /\ frames[p].ctx = "rollback" /\ frames[p].errors = 1
  /\ failures' = failures

\* C4: when step k of hideChrome throws (and nothing else does), then after
\* enter returns every setting and command-toggled chrome part of the steps
\* before k has its value from before the call, and the context key is false.
C4_RollbackRestores ==
  [][\A p \in Procs :
       RollbackReturns(p)
       => /\ \A key \in {"minimapEnabled", "showTabs", "editorActionsLocation",
                         "breadcrumbsEnabled", "menuBarVisibility",
                         "layoutControlEnabled", "zoomPerWindow", "zoomLevel"} :
               DoneBefore(key, frames[p].thrownAt)
                 => settings'[key] = pre.settings[key]
          /\ \A part \in {"activityBar", "statusBar", "fullScreen", "centeredLayout"} :
               DoneBefore(part, frames[p].thrownAt)
                 => chrome'[part] = pre.chrome[part]
          /\ \A part \in {"sideBar", "panel"} :
               DoneBefore(part, frames[p].thrownAt) /\ pre.chrome[part]
                 => chrome'[part]
          /\ ~contextKey']_vars

\* C5: after a successful enter followed by an exit that runs to its end, with
\* no user change in between, every deterministic-tier field (the settings,
\* zoom level and zoomPerWindow included, and the editors' line-number style)
\* has its value from before enter.
C5_EnterExitRestores ==
  [][\A p \in Procs :
       ExitCompletes(p) /\ ~userChanged
         => settings' = pre.settings /\ editorOptions' = pre.editorOptions]_vars

\* A command was invoked in the last step while the call of some frame was
\* suspended at `label`: the command came during that call.
InvokedDuring(label) == lastCall = "command" /\ \E p \in Procs : frames[p].pc = label

\* C6: a toggle or exit command invoked while an enter or exit is in flight
\* changes nothing: no setting, no chrome, no ledger flag or snapshot value,
\* no subscription, and not the in-flight call's frame.
C6_ReentrantCallNoOp ==
  [][lastCall' = "command" /\ isTransitioning => UNCHANGED <<progVars, hostVars>>]_vars

C6_Witness == InvokedDuring("h_focusZoom") /\ isTransitioning

\* The call of frame p is between its first and its last step.
InFlight(p) == frames[p].pc \notin {"idle", "boot"} /\ frames[p].ctx # "recovery"

\* C7: at most one enter or exit is in flight, and a call only ever starts
\* in the step of its own invocation (a command, or the delivery of the
\* visible-editors event), with the guard clear: a rejected call is not run
\* later.
C7_OneInFlightNoQueue ==
  [][/\ \A p, q \in Procs : InFlight(p)' /\ InFlight(q)' => p = q
     /\ \A p \in Procs : ~InFlight(p) /\ InFlight(p)'
          => /\ lastCall' = "command" \/ pendingEvent = "visibleEmpty"
             /\ ~isTransitioning /\ isTransitioning']_vars

C7_Witness == InvokedDuring("r_zoomReset") /\ isTransitioning /\ isActive

\* The step in which the enter call of frame p returns with the session Active.
EnterSucceeds(p) == frames[p].pc = "e_context" /\ frames'[p].pc = "idle" /\ isActive'

\* C8: with window.zoomPerWindow on, zoom Z0 and persisted focus zoom Zf
\* before enter: after enter window.zoomLevel is Zf and zoomPerWindow is
\* off; after the following exit window.zoomLevel is Z0, zoomPerWindow is on
\* and the persisted focus zoom is the zoom level as it was when exit began.
C8_ZoomOrdering ==
  [][\A p \in Procs :
       pre.settings.zoomPerWindow /\ IsDefined(pre.focusZoomLevel)
       => /\ EnterSucceeds(p)
               => /\ settings'.zoomLevel = ValueOf(pre.focusZoomLevel)
                  /\ ~settings'.zoomPerWindow
          /\ ExitCompletes(p)
               => /\ settings'.zoomLevel = pre.settings.zoomLevel
                  /\ settings'.zoomPerWindow
                  /\ memento'.focusZoomLevel = Some(zoomAtExit)]_vars

C8_Witness ==
  /\ Idle /\ ~isActive /\ kills = 0 /\ userChanged
  /\ pre.settings.zoomPerWindow /\ IsDefined(pre.focusZoomLevel)
  /\ pre.focusZoomLevel # Some(pre.settings.zoomLevel)
  /\ memento.focusZoomLevel # pre.focusZoomLevel
  /\ settings.zoomLevel = pre.settings.zoomLevel /\ settings.zoomPerWindow

\* The step in which frame p issues workbench.action.zoomReset.
IssuesZoomReset(p) ==
  \/ frames[p].pc = "h_zoomReset" /\ frames'[p].pc = "h_zoomPerWindow"
  \/ frames[p].pc = "r_zoomReset" /\ frames'[p].pc # "r_zoomReset" /\ failures' = failures

\* C9: in enter, exit, rollback and crash recovery, zoomReset is issued only
\* while window.zoomPerWindow is on, and so never changes window.zoomLevel.
C9_ZoomResetOnlyInShadowMode ==
  [][\A p \in Procs :
       IssuesZoomReset(p)
         => settings.zoomPerWindow /\ settings'.zoomLevel = settings.zoomLevel]_vars

\* C10: when the window is killed while the session is Active and started
\* again, then after crash recovery (in which nothing throws) every setting the killed session changed
\* has its value from before that session's enter.
C10_CrashRecoveryRestores ==
  [][\A p \in Procs :
       /\ frames[p].pc = "c_context" /\ frames'[p].pc = "idle"
       /\ frames[p].errors = 0 /\ failures' = failures
         => \A key \in {"minimapEnabled", "showTabs", "editorActionsLocation",
                        "breadcrumbsEnabled", "menuBarVisibility",
                        "layoutControlEnabled", "zoomLevel", "zoomPerWindow"} :
              settings'[key] = pre.settings[key]]_vars

\* The step in which crashRecovery, having found the marker, returns.
RecoveryReturns(p) == frames[p].ctx = "recovery" /\ frames'[p].pc = "idle"

\* C11: with the crash marker true at startup, crashRecovery returns with
\* the marker false and the context key false, also when restoreChrome threw;
\* with the marker false at startup it writes no setting, runs no command
\* and writes nothing to the memento.
C11_CrashRecoveryMarker ==
  [][\A p \in Procs :
       /\ RecoveryReturns(p) => ~memento'.wasActive /\ ~contextKey'
       /\ frames[p].pc = "boot" /\ ~memento.wasActive
            => UNCHANGED hostVars /\ frames'[p].pc = "idle"]_vars

\* restoreChrome threw in crashRecovery, and the marker has been cleared.
C11_Witness ==
  \E p \in Procs : /\ frames[p].pc = "c_context" /\ frames[p].ctx = "recovery"
                    /\ frames[p].errors > 0 /\ ~memento.wasActive

\* ------------------------------------------- computeDimmedRanges on its own

\* Every document length up to MaxDimLines with every strictly ascending
\* sequence of cursor lines in it; the rest of the state is at rest.
DimInit ==
  /\ isActive = FALSE
  /\ isTransitioning = FALSE
  /\ disposables = 0
  /\ selectionDebounceTimer = Undefined
  /\ changed = freshLedger
  /\ settingsSnapshot = emptySnapshot
  /\ globalState = "memento"
  /\ frames = [p \in Procs |-> idleFrame]
  /\ commandsRegistered = TRUE
  /\ LET c == CHOOSE x \in Profiles : x.open IN
       /\ settings = SettingsOf(c, 0, TRUE)
       /\ chrome = ChromeOf(c)
  /\ focusModeCfg = CHOOSE x \in Configs : x.lineNumbers = "off"
  /\ contextKey = FALSE
  /\ memento = [wasActive |-> FALSE, focusZoomLevel |-> Undefined]
  /\ visibleTextEditors = Editors
  /\ activeTextEditor \in Editors
  /\ editorOptions = [e \in Editors |-> StyleOfSetting(settings.lineNumbers)]
  /\ decorations = [e \in Editors |-> <<>>]
  /\ \E N \in 0..MaxDimLines : \E T \in SUBSET (0..(N - 1)) :
       /\ lineCount = [e \in Editors |-> N]
       /\ selections = [e \in Editors |-> SortedSeq(T)]
  /\ timers = {}
  /\ pendingEvent = "none"
  /\ pre = Ambient
  /\ zoomAtExit = 0
  /\ userChanged = FALSE
  /\ lastCall = "none"
  /\ kills = 0
  /\ failures = 0

\* computeDimmedRanges applied to the cursor lines and line count of every
\* editor, its result handed to setDecorations.
DimApply ==
  /\ lastCall = "none"
  /\ lastCall' = "dim"
  /\ decorations' = [e \in Editors |-> computeDimmedRanges(selections[e], lineCount[e])]
  /\ UNCHANGED <<progVars, settings, focusModeCfg, chrome, contextKey, memento,
                 activeTextEditor, visibleTextEditors, editorOptions, selections,
                 lineCount, timers, pendingEvent, histVars, failures>>

SpecDim == DimInit /\ [][DimApply]_vars

\* The lines a sequence of closed ranges covers.
LinesOf(R) == UNION {R[i][1]..R[i][2] : i \in 1..Len(R)}

\* R is the ascending list of maximal runs of non-cursor lines of [0,N).
IsDimmedRangesOf(R, S, N) ==
  /\ \A i \in 1..Len(R) : 0 <= R[i][1] /\ R[i][1] <= R[i][2] /\ R[i][2] < N
  /\ \A i \in 1..(Len(R) - 1) : R[i][2] + 1 < R[i + 1][1]
  /\ LinesOf(R) \cup {S[j] : j \in 1..Len(S)} = 0..(N - 1)
  /\ LinesOf(R) \cap {S[j] : j \in 1..Len(S)} = {}

\* C12: for every line count N and strictly ascending cursor lines S within
\* [0,N), computeDimmedRanges(S, N) is exactly the ascending list of maximal
\* runs of non-cursor lines: ranges in bounds with start <= end, pairwise
\* disjoint and non-adjacent, covering together with S exactly [0,N).
C12_DimmedRangesExact ==
  lastCall = "dim"
    => \A e \in Editors : IsDimmedRangesOf(decorations[e], selections[e], lineCount[e])

\* Adjacent cursor lines, a gap before, between and after the cursors.
C12_Witness ==
  /\ lastCall = "dim"
  /\ \E e \in Editors : /\ lineCount[e] = 6 /\ selections[e] = <<1, 2, 4>>
                         /\ decorations[e] = << <<0, 0>>, <<3, 3>>, <<5, 5>> >>

\* The step in which restoreChrome, called by the exit of frame p, throws.
ExitRestoreThrows(p) ==
  frames[p].ctx = "exit" /\ frames[p].pc # "x_context" /\ frames'[p].pc = "idle"

\* C13: when restoreChrome (or a single restore step in it) throws during an
\* exit that started from Active, exit still clears the context key and the
\* crash marker.
C13_ExitContinuesPastErrors ==
  [][\A p \in Procs :
       ExitRestoreThrows(p) => ~contextKey' /\ ~memento'.wasActive]_vars

\* C16: a toggle or exit command while Inactive, no transition in flight and
\* no active editor changes nothing: session flags, frames, ledger, snapshot,
\* subscriptions, settings, chrome, context key and crash marker are unchanged.
C16_EnterWithoutEditorNoOp ==
  [][lastCall' = "command" /\ ~isActive /\ ~isTransitioning
       /\ activeTextEditor = NoEditor
       => UNCHANGED <<progVars, hostVars>>]_vars

C16_Witness ==
  /\ lastCall = "command" /\ activeTextEditor = NoEditor
  /\ ~isActive /\ ~isTransitioning /\ commandsRegistered /\ Idle

\* The step in which joinAllGroups fails in the enter of frame p.
JoinThrows(p) == frames[p].pc = "e_join" /\ failures' > failures

\* The step in which enter returns after joinAllGroups failed.
JoinAbortReturns(p) ==
  frames[p].pc = "e_catch" /\ frames[p].thrownAt = "e_join" /\ frames'[p].pc = "idle"

\* C17: when joinAllGroups fails, enter goes to its catch without running
\* hideChrome: the failing step and the return write no setting, toggle no
\* chrome part and set no ledger flag, and enter returns Inactive with the
\* context key false and settings and chrome as before the call.
C17_JoinFailureAborts ==
  [][\A p \in Procs :
       /\ JoinThrows(p)
            => /\ frames'[p].pc = "e_catch"
               /\ UNCHANGED <<settings, chrome, changed, settingsSnapshot>>
       /\ JoinAbortReturns(p)
            => /\ UNCHANGED <<settings, chrome, changed, settingsSnapshot>>
               /\ settings' = pre.settings /\ chrome' = pre.chrome
               /\ ~isActive' /\ ~isTransitioning' /\ ~contextKey'
               /\ disposables' = 0]_vars

C17_Witness ==
  \E p \in Procs :
    /\ frames[p].pc = "e_catch" /\ frames[p].thrownAt = "e_join"
    /\ changed = freshLedger /\ settings = pre.settings /\ chrome = pre.chrome

\* Awaited host calls settle and queued events are delivered.
FairSpec ==
  /\ Spec
  /\ WF_vars(\E p \in Procs : Step(p))
  /\ WF_vars(onDidChangeVisibleTextEditors)

\* The host has queued the empty visible-editors event for an Active session
\* with no transition in flight.
AutoExitDue == pendingEvent = "visibleEmpty" /\ isActive /\ ~isTransitioning

\* C14: once the empty visible-editors event is queued for an Active session,
\* exit runs and the session eventually becomes Inactive, with no toggle or
\* exit command needed.
C14_AutoExitReachesInactive == AutoExitDue ~> ~isActive

\* A step in which a selection-changed event is handled.
SelectionHandled == selections' # selections

\* A step in which the pending debounce timer fires in an Active session.
FiresWhileActive ==
  /\ timers # {} /\ timers' = {}
  /\ isActive /\ isActive' /\ UNCHANGED <<isTransitioning, kills>>

\* C15: at most one debounced recompute is pending at any time; every
\* selection-changed event leaves exactly the timer it schedules pending (the
\* earlier one is cancelled), and when the timer fires the decorations are
\* recomputed once, from the selection left by the last event.
C15_DebounceOnePending ==
  [][/\ Cardinality(timers') <= 1
     /\ SelectionHandled
          => \E e \in Editors :
               /\ selections'[e] # selections[e]
               /\ IsDefined(selectionDebounceTimer')
               /\ timers' = {[id |-> ValueOf(selectionDebounceTimer'), editor |-> e]}
     /\ FiresWhileActive
          => \A t \in timers :
               t.editor \in visibleTextEditors
                 => decorations'[t.editor] = updateDecorations(t.editor)]_vars

\* A burst: a timer is pending although the decorations already match the
\* selection, so at least two events arrived since the last recompute.
C15_Witness ==
  /\ isActive /\ Cardinality(timers) = 1
  /\ \E t \in timers :
       /\ t.editor \in visibleTextEditors
       /\ selectionDebounceTimer = Some(t.id)
       /\ decorations[t.editor] = updateDecorations(t.editor)

\* C18: whenever the session is Inactive and no call is in flight, every
\* flag of the ledger is false.
C18_LedgerClearWhenInactive ==
  ~isActive /\ ~isTransitioning /\ Idle => changed = freshLedger

\* The rollback of frame p is at the zoom restore, after a hideChrome that
\* threw before its zoom block captured window.zoomLevel.
RollbackBeforeZoomCapture(p) ==
  /\ frames[p].pc = "r_zoomLevel" /\ frames[p].ctx = "rollback"
  /\ StepIndex(frames[p].thrownAt) < StepIndex("h_zoomReset")

\* C19: the snapshot is emptied when a session starts, so a rollback never
\* writes a value captured in an earlier session: when hideChrome throws
\* before it captured window.zoomLevel, the rollback leaves window.zoomLevel
\* alone.
C19_NoStaleSnapshotWrite ==
  [][\A p \in Procs :
       RollbackBeforeZoomCapture(p) => settings'.zoomLevel = settings.zoomLevel]_vars

\* The blocks of hideChrome's deterministic tier: step, setting, ledger flag
\* and target value.
DeterministicTier ==
  << [label |-> "h_minimap", key |-> "minimapEnabled", flag |-> "minimap", target |-> FALSE],
     [label |-> "h_tabs", key |-> "showTabs", flag |-> "tabs", target |-> "none"],
     [label |-> "h_editorActions", key |-> "editorActionsLocation",
      flag |-> "editorActions", target |-> "hidden"],
     [label |-> "h_breadcrumbs", key |-> "breadcrumbsEnabled", flag |-> "breadcrumbs",
      target |-> FALSE],
     [label |-> "h_menuBar", key |-> "menuBarVisibility", flag |-> "menuBar",
      target |-> "hidden"],
     [label |-> "h_layoutControl", key |-> "layoutControlEnabled",
      flag |-> "layoutControl", target |-> FALSE] >>

\* Frame p runs block d of the tier in this step (the minimap block only
\* when hideMinimap is set).
RunsBlock(p, d) ==
  /\ frames[p].pc = d.label /\ frames'[p].pc # d.label
  /\ d.label = "h_minimap" => ConfigOf(p).hideMinimap

\* C20: each block of the deterministic tier records the current value in
\* the snapshot; it writes the target value and sets its ledger flag exactly
\* when the recorded value differs from the target (the flag is set once the
\* write is accepted); when the value already is the target, no write is
\* issued and the flag stays false.
C20_SnapshotWriteFlagProtocol ==
  [][\A p \in Procs : \A i \in 1..Len(DeterministicTier) :
       LET d == DeterministicTier[i] IN
       RunsBlock(p, d)
         => /\ settingsSnapshot'[d.key] = Some(settings[d.key])
            /\ ~changed[d.flag]
            /\ IF settings[d.key] # d.target
               THEN \/ /\ failures' = failures
                       /\ settings' = [settings EXCEPT ![d.key] = d.target]
                       /\ changed' = [changed EXCEPT ![d.flag] = TRUE]
                    \/ /\ failures' > failures
                       /\ UNCHANGED <<settings, changed>>
               ELSE /\ failures' = failures
                    /\ UNCHANGED <<settings, changed>>]_vars

\* After the tier: the minimap was hidden and flagged, the tabs already were
\* hidden and are not flagged.
C20_Witness ==
  \E p \in Procs :
    /\ frames[p].pc = "h_zoomReset" /\ frames[p].ctx = "none"
    /\ changed.minimap /\ settingsSnapshot.minimapEnabled = Some(TRUE)
    /\ ~settings.minimapEnabled
    /\ ~changed.tabs /\ settingsSnapshot.showTabs = Some("none")

\* The ledger flag that stands for each setting of the deterministic tier.
FlagOf ==
  [minimapEnabled |-> "minimap", showTabs |-> "tabs",
   editorActionsLocation |-> "editorActions", breadcrumbsEnabled |-> "breadcrumbs",
   menuBarVisibility |-> "menuBar", layoutControlEnabled |-> "layoutControl",
   zoomLevel |-> "zoom"]

\* The steps of restoreChrome that write a setting with a ledger flag.
RestoreWrites ==
  {"r_minimap", "r_tabs", "r_editorActions", "r_breadcrumbs", "r_menuBar",
   "r_layoutControl", "r_zoomLevel"}

\* C21: restoreChrome writes a deterministic-tier setting (window.zoomLevel
\* included) only when the ledger flag of that setting is true, and then it
\* writes the snapshotted value; a setting whose flag is false is left as the
\* user has it.
C21_RestoreOnlyFlagged ==
  [][\A p \in Procs :
       frames[p].pc \in RestoreWrites /\ frames'[p].pc # frames[p].pc
         => \A key \in DOMAIN FlagOf :
              settings'[key] # settings[key]
                => /\ changed[FlagOf[key]]
                   /\ settings'[key] = ValueOf(settingsSnapshot[key])]_vars

\* The step of restoreChrome that issues the inverse command of each part.
RestoreStepOf ==
  [centeredLayout |-> "r_centeredLayout", fullScreen |-> "r_fullScreen",
   statusBar |-> "r_statusBar", activityBar |-> "r_activityBar", panel |-> "r_panel",
   sideBar |-> "r_sideBar"]

RestoreCommandSteps == {RestoreStepOf[part] : part \in DOMAIN RestoreStepOf}

\* Frame p takes this step (the window is not killed in it).
Steps(p) == frames'[p].pc # frames[p].pc /\ kills' = kills

\* C22: restoreChrome issues the inverse commands in the order centered
\* layout, full screen, status bar, activity bar, panel, side bar, the
\* reverse of the order of hideChrome; each is issued at its own step only,
\* so at most once, and only when its ledger flag is true.
C22_ReverseOrderRestore ==
  [][\A p \in Procs :
       /\ Steps(p) /\ frames[p].pc \in RestoreCommandSteps
            => \A part \in DOMAIN RestoreStepOf :
                 /\ chrome'[part] # chrome[part]
                      => /\ frames[p].pc = RestoreStepOf[part]
                         /\ changed[part]
                         /\ chrome' = toggleCommand(chrome, part)
                 /\ frames[p].pc = RestoreStepOf[part]
                      => /\ failures' > failures => changed[part]
                         /\ \/ /\ part = "sideBar" \/ failures' > failures
                               /\ frames'[p].pc \notin RestoreCommandSteps
                            \/ \E next \in DOMAIN RestoreStepOf :
                                  /\ frames'[p].pc = RestoreStepOf[next]
                                  /\ StepIndex(LastWriter[next]) + 1
                                       = StepIndex(LastWriter[part])
       /\ Steps(p) /\ frames'[p].pc = "r_centeredLayout"
            => frames[p].pc = "r_zoomReset"]_vars

\* An exit at its last inverse command: every part hidden after the side
\* bar is back, the side bar is still closed.
C22_Witness ==
  \E p \in Procs :
    /\ frames[p].pc = "r_sideBar" /\ frames[p].ctx = "exit"
    /\ changed.sideBar /\ ~chrome.sideBar
    /\ chrome.panel /\ chrome.activityBar /\ chrome.statusBar /\ ~chrome.fullScreen

\* Whether the configuration requests the pure toggle of `part`.
Requested(config, part) ==
  IF part = "fullScreen" THEN config.fullScreen ELSE config.centerLayout

\* Frame p issues the toggle command of `part` in this step (accepted or
\* rejected by the host).
IssuesToggle(p, part) ==
  /\ Steps(p) /\ frames[p].pc \in {LastWriter[part], RestoreStepOf[part]}
  /\ chrome'[part] # chrome[part] \/ failures' > failures

\* C23: toggleFullScreen (toggleCenteredLayout) is issued by hideChrome only
\* when the session's configuration has fullScreen (centerLayout) set, and by
\* a restore or rollback only when the hideChrome of the same session issued
\* it; nothing else changes these two parts.
C23_PureTogglesOnlyWhenRequested ==
  [][\A part \in {"fullScreen", "centeredLayout"} :
       /\ \A p \in Procs :
            IssuesToggle(p, part)
              => /\ Requested(pre.config, part)
                 /\ frames[p].pc = RestoreStepOf[part]
                      => \/ frames[p].ctx = "exit"
                         \/ /\ frames[p].ctx = "rollback"
                            /\ DoneBefore(part, frames[p].thrownAt)
       /\ chrome'[part] # chrome[part] /\ kills' = kills
            => \E p \in Procs : IssuesToggle(p, part)]_vars

\* An exit that has toggled full screen back, in a session whose
\* configuration asks for full screen and not for the centered layout.
C23_Witness ==
  \E p \in Procs :
    /\ frames[p].pc = "r_statusBar" /\ frames[p].ctx = "exit"
    /\ pre.config.fullScreen /\ ~pre.config.centerLayout
    /\ changed.fullScreen /\ ~changed.centeredLayout
    /\ ~chrome.fullScreen /\ ~chrome.centeredLayout

\* The zoom steps of hideChrome and of restoreChrome, each preceded by the
\* step that comes before the block.
HideZoomSteps == <<"h_layoutControl", "h_zoomReset", "h_zoomPerWindow", "h_focusZoom">>
RestoreZoomSteps ==
  <<"r_layoutControl", "r_persistZoom", "r_zoomLevel", "r_zoomPerWindow", "r_zoomReset">>

\* Frame p reaches step i+1 of `seq` from step i only.
InSequence(p, seq) ==
  \A i \in 2..Len(seq) :
    Steps(p) /\ frames'[p].pc = seq[i] => frames[p].pc = seq[i - 1]

\* C24: in every enter the zoom steps run in the order capture (zoom level
\* and zoomPerWindow, as they are before the reset), zoomReset, zoomPerWindow
\* off, persisted focus zoom; in every exit in the order read and persist
\* the zoom level, write back the captured zoom, restore zoomPerWindow,
\* zoomReset. Each effect happens at its own step and at no other.
C24_ZoomStepOrder ==
  [][\A p \in Procs :
       /\ InSequence(p, HideZoomSteps)
       /\ InSequence(p, RestoreZoomSteps)
       /\ Steps(p) /\ frames[p].pc = "h_zoomReset"
            => /\ settingsSnapshot'.zoomLevel = Some(settings.zoomLevel)
               /\ settingsSnapshot'.zoomPerWindow = Some(settings.zoomPerWindow)
               /\ settings'.zoomPerWindow = settings.zoomPerWindow
       /\ Steps(p) /\ ( \/ settingsSnapshot'.zoomLevel # settingsSnapshot.zoomLevel
                         \/ settingsSnapshot'.zoomPerWindow # settingsSnapshot.zoomPerWindow )
            => frames[p].pc = "h_zoomReset"
       /\ Steps(p) /\ settings'.zoomPerWindow # settings.zoomPerWindow
            => \/ frames[p].pc = "h_zoomPerWindow" /\ ~settings'.zoomPerWindow
               \/ /\ frames[p].pc = "r_zoomPerWindow"
                  /\ settings'.zoomPerWindow = ValueOf(settingsSnapshot.zoomPerWindow)
       /\ Steps(p) /\ memento'.focusZoomLevel # memento.focusZoomLevel
            => /\ frames[p].pc = "r_persistZoom"
               /\ memento'.focusZoomLevel = Some(settings.zoomLevel)
       /\ Steps(p) /\ settings'.zoomLevel # settings.zoomLevel
            => frames[p].pc \in {"h_zoomReset", "h_focusZoom", "r_zoomLevel", "r_zoomReset"}]_vars

\* An exit past its zoom block: the zoom in force at exit is persisted, the
\* captured zoom is written back and zoomPerWindow is on again.
C24_Witness ==
  \E p \in Procs :
    /\ frames[p].pc = "r_centeredLayout" /\ frames[p].ctx = "exit"
    /\ memento.focusZoomLevel = Some(zoomAtExit)
    /\ settingsSnapshot.zoomLevel = Some(settings.zoomLevel)
    /\ zoomAtExit # settings.zoomLevel
    /\ settings.zoomPerWindow

\* The step in which a persisted focus zoom is replaced by another value.
FocusZoomRewritten ==
  IsDefined(memento.focusZoomLevel) /\ memento'.focusZoomLevel # memento.focusZoomLevel

\* C25: the zoom level in force when a focus session exits is persisted; it
\* stays persisted until the next enter, across restarts of the window, no
\* call other than the end of a focus session (exit, or crash recovery after
\* a kill) rewriting it; and with window.zoomPerWindow on in normal mode it
\* is window.zoomLevel right after the next successful enter.
C25_FocusZoomKept ==
  [][/\ \A p \in Procs :
          /\ ExitCompletes(p) => memento'.focusZoomLevel = Some(zoomAtExit)
          /\ EnterSucceeds(p) /\ pre.settings.zoomPerWindow /\ IsDefined(pre.focusZoomLevel)
               => settings'.zoomLevel = ValueOf(pre.focusZoomLevel)
     /\ FocusZoomRewritten
          => \E p \in Procs : /\ frames[p].pc = "r_persistZoom"
                               /\ frames[p].ctx \in {"exit", "recovery"}]_vars

\* Crash recovery is due or running in frame p.
Recovering(p) == frames[p].pc = "boot" \/ frames[p].ctx = "recovery"

\* C27: crash recovery starts only from the start of the process, once; while
\* it is due or running no command is registered, no other call is in
\* flight and the session is Inactive; a toggle or exit command is handled
\* only after it has returned.
C27_RecoveryBeforeTriggers ==
  [][/\ \A p \in Procs :
          /\ Recovering(p)
               => /\ ~commandsRegistered /\ ~isActive /\ ~isTransitioning
                  /\ \A q \in Procs \ {p} : frames[q].pc = "idle"
          /\ frames'[p].ctx = "recovery" /\ frames[p].ctx # "recovery"
               => frames[p].pc = "boot"
          /\ frames'[p].pc = "boot" => frames[p].pc = "boot" \/ kills' = kills + 1
     /\ lastCall' = "command" \/ pendingEvent # pendingEvent'
          => \A p \in Procs : ~Recovering(p)]_vars

\* Crash recovery under way after a kill, no command registered yet.
C27_Witness ==
  \E p \in Procs :
    /\ frames[p].ctx = "recovery" /\ frames[p].pc = "r_zoomLevel"
    /\ kills = 1 /\ memento.wasActive /\ ~commandsRegistered

\* Frame p, in an exit, runs the restore step of `part` while the part is
\* closed, as hideChrome left it, and the host accepts the command.
ReopenStep(p, part) ==
  /\ Steps(p) /\ frames[p].ctx = "exit" /\ frames[p].pc = RestoreStepOf[part]
  /\ ~chrome[part] /\ failures' = failures

\* C29: in the exit of a session the inverse toggle command of the panel
\* and of the side bar is issued whether or not they were visible before
\* enter: the part hideChrome closed (or found closed) is flagged and is
\* open after its restore step, also when it was closed before enter.
C29_SideBarPanelReopened ==
  [][\A p \in Procs : \A part \in {"panel", "sideBar"} :
       ReopenStep(p, part) => changed[part] /\ chrome'[part]]_vars

\* A session that was Active has ended by exit: side bar and panel were
\* closed before enter and are open now.
C29_Witness ==
  /\ Idle /\ ~isActive /\ userChanged /\ kills = 0
  /\ ~pre.chrome.sideBar /\ ~pre.chrome.panel
  /\ chrome.sideBar /\ chrome.panel

\* Some editor is handed dimmed ranges in this step.
AppliesDimmedRanges ==
  \E e \in Editors : decorations'[e] # <<>> /\ decorations'[e] # decorations[e]

\* C26: when an exit that started from Active completes, no visible editor
\* carries dimmed ranges and no debounced recompute is pending; and while the
\* session is Inactive no step hands dimmed ranges to an editor, be it a
\* timer or an event handler, except the step of an enter that applies them.
C26_NoDimmingAfterExit ==
  [][/\ \A p \in Procs :
          ExitCompletes(p)
            => /\ \A e \in visibleTextEditors' : decorations'[e] = <<>>
               /\ timers' = {}
     /\ ~isActive /\ AppliesDimmedRanges
          => \E p \in Procs : frames[p].pc = "e_context"]_vars

\* A session in which the caret moved has ended by exit: the editor is
\* visible, carries no dimmed range and no timer is pending.
C26_Witness ==
  /\ Idle /\ ~isActive /\ IsDefined(memento.focusZoomLevel)
  /\ visibleTextEditors # {} /\ timers = {}
  /\ \E e \in visibleTextEditors : selections[e] # <<0>> /\ decorations[e] = <<>>

\* The line-number policy is Inherit in the configuration enter read (which
\* the active-editor listener keeps) and in the configuration as it is now
\* and after the step (which onConfigChange reads).
InheritPolicy ==
  /\ pre.config.lineNumbers = "inherit" /\ pre'.config.lineNumbers = "inherit"
  /\ focusModeCfg.lineNumbers = "inherit" /\ focusModeCfg'.lineNumbers = "inherit"

\* C28: hideChrome starts a session with the lineNumbers flag false; with
\* the policy Inherit and the flag false, no step of enter, of an event
\* handler or of exit changes the line-number style of an editor, captures
\* the line-number snapshot or raises the flag (the host closing the
\* editors is not a step of the program).
C28_InheritLeavesLineNumbers ==
  [][/\ \A p \in Procs :
          frames'[p].pc = "h_minimap" /\ frames[p].pc # "h_minimap"
            => ~changed'.lineNumbers
     /\ InheritPolicy /\ ~changed.lineNumbers
        /\ visibleTextEditors' = visibleTextEditors
          => /\ ~changed'.lineNumbers
             /\ settingsSnapshot'.lineNumbers = settingsSnapshot.lineNumbers
             /\ editorOptions' = editorOptions]_vars

\* A session with the policy Inherit has ended by exit after the caret
\* moved and the focus left the editor: nothing was captured or flagged.
C28_Witness ==
  /\ Idle /\ ~isActive /\ IsDefined(memento.focusZoomLevel)
  /\ pre.config.lineNumbers = "inherit" /\ focusModeCfg.lineNumbers = "inherit"
  /\ visibleTextEditors # {} /\ activeTextEditor = NoEditor
  /\ \E e \in visibleTextEditors : selections[e] # <<0>>
  /\ ~changed.lineNumbers /\ ~IsDefined(settingsSnapshot.lineNumbers)
  /\ editorOptions = pre.editorOptions

\* Frame p starts an exit in this step: the step that runs restoreLineNumbers
\* on every visible editor.
ExitStarts(p) == frames[p].pc = "idle" /\ frames'[p].ctx = "exit"

\* C30: in one session the line-number style an editor had is captured by
\* the first applyLineNumbers only: the step that raises the lineNumbers flag
\* captures the style of an editor as it was, a later step of the session
\* leaves the captured value alone, and the restoreLineNumbers of exit gives
\* every visible editor the captured style.
C30_LineNumbersCapturedOnceRestored ==
  [][/\ ~changed.lineNumbers /\ changed'.lineNumbers
          => /\ IsDefined(settingsSnapshot'.lineNumbers)
             /\ \E e \in Editors :
                  StyleOfSetting(ValueOf(settingsSnapshot'.lineNumbers)) = editorOptions[e]
     /\ changed.lineNumbers /\ changed'.lineNumbers
          => settingsSnapshot'.lineNumbers = settingsSnapshot.lineNumbers
     /\ \A p \in Procs :
          ExitStarts(p) /\ changed.lineNumbers /\ IsDefined(settingsSnapshot.lineNumbers)
            => \A e \in visibleTextEditors :
                 editorOptions'[e] = StyleOfSetting(ValueOf(settingsSnapshot.lineNumbers))]_vars

\* ---------------------------------------------- updateDecorations on its own

\* Every document of 1..MaxUpdLines lines with every list of 1..MaxCarets
\* carets in it, in any order and with repetitions; the rest of the state
\* is at rest.
UpdInit ==
  /\ isActive = FALSE
  /\ isTransitioning = FALSE
  /\ disposables = 0
  /\ selectionDebounceTimer = Undefined
  /\ changed = freshLedger
  /\ settingsSnapshot = emptySnapshot
  /\ globalState = "memento"
  /\ frames = [p \in Procs |-> idleFrame]
  /\ commandsRegistered = TRUE
  /\ LET c == CHOOSE x \in Profiles : x.open IN
       /\ settings = SettingsOf(c, 0, TRUE)
       /\ chrome = ChromeOf(c)
  /\ focusModeCfg = CHOOSE x \in Configs : x.lineNumbers = "off"
  /\ contextKey = FALSE
  /\ memento = [wasActive |-> FALSE, focusZoomLevel |-> Undefined]
  /\ visibleTextEditors = Editors
  /\ activeTextEditor \in Editors
  /\ editorOptions = [e \in Editors |-> StyleOfSetting(settings.lineNumbers)]
  /\ decorations = [e \in Editors |-> <<>>]
  /\ \E N \in 1..MaxUpdLines : \E k \in 1..MaxCarets :
       \E carets \in [1..k -> 0..(N - 1)] :
         /\ lineCount = [e \in Editors |-> N]
         /\ selections = [e \in Editors |-> carets]
  /\ timers = {}
  /\ pendingEvent = "none"
  /\ pre = Ambient
  /\ zoomAtExit = 0
  /\ userChanged = FALSE
  /\ lastCall = "none"
  /\ kills = 0
  /\ failures = 0

\* updateDecorations called on every editor.
UpdApply ==
  /\ lastCall = "none"
  /\ lastCall' = "upd"
  /\ decorations' = [e \in Editors |-> updateDecorations(e)]
  /\ UNCHANGED <<progVars, settings, focusModeCfg, chrome, contextKey, memento,
                 activeTextEditor, visibleTextEditors, editorOptions, selections,
                 lineCount, timers, pendingEvent, histVars, failures>>

SpecUpd == UpdInit /\ [][UpdApply]_vars

\* The lines of editor e that hold a caret.
CaretLines(e) == {selections[e][i] : i \in 1..Len(selections[e])}

\* C31: after updateDecorations on an editor, for every list of carets (any
\* order, repetitions allowed, at least one caret) and every line count, the
\* dimmed lines are exactly the lines that hold no caret.
C31_DimmedIsComplementOfCarets ==
  lastCall = "upd"
    => \A e \in Editors :
         LinesOf(decorations[e]) = (0..(lineCount[e] - 1)) \ CaretLines(e)

\* Carets out of order with a repetition: lines 1 and 3 are dimmed.
C31_Witness ==
  /\ lastCall = "upd"
  /\ \E e \in Editors : /\ lineCount[e] = 4 /\ selections[e] = <<2, 0, 2>>
                         /\ decorations[e] = << <<1, 1>>, <<3, 3>> >>

\* hideChrome or restoreChrome is in progress in frame p: the frame is
\* suspended at one of their awaited writes or commands.
InChrome(p) ==
  frames[p].pc \notin {"idle", "boot", "e_join", "e_context", "e_catch", "x_context",
                       "c_marker", "c_context"}

\* A timer callback or an event handler updates an editor or the ledger in
\* this step: no call frame moves and the host closes no editor.
HandlerUpdates ==
  /\ frames' = frames /\ visibleTextEditors' = visibleTextEditors
  /\ <<decorations, editorOptions, changed, settingsSnapshot>>'
       # <<decorations, editorOptions, changed, settingsSnapshot>>

C33_ListenersIffActive ==
  Idle => disposables = (IF isActive THEN 4 ELSE 0)

\* C34: whenever no enter, exit or crash recovery is in flight, whatever
\* host commands failed, the context key focusMode.active is true if and
\* only if the session is Active.
C34_ContextKeyIffActive ==
  Idle => (contextKey <=> isActive)

\* An exit has failed part-way: the session is still Active, without
\* listeners, and the context key is still true.
C34_Witness ==
  /\ Idle /\ isActive /\ contextKey /\ disposables = 0 /\ failures > 0

\* A setting or a part of the chrome differs from what it was before enter
\* while the session is Active or an enter or exit is in flight.
MutationOutstanding ==
  /\ settings # pre.settings \/ chrome # pre.chrome
  /\ isActive \/ \E p \in Procs : frames[p].pc # "idle"

\* C35: at every moment at which a change made by enter to the settings or
\* the chrome is outstanding, from the first write of hideChrome until the
\* restoreChrome of exit has finished, the persisted marker
\* focusMode.wasActive is true.
C35_MarkerWhileMutated ==
  MutationOutstanding => memento.wasActive

\* The step in which the enter call of frame p returns from its catch:
\* joinAllGroups or a step of hideChrome threw.
EnterFails(p) == frames[p].pc = "e_catch" /\ frames'[p].pc = "idle" /\ kills' = kills

\* C36: an enter that fails, a step of hideChrome having thrown and the
\* rollback having run, leaves the persisted focusMode.focusZoomLevel as it
\* was before the call.
C36_FailedEnterKeepsFocusZoom ==
  [][\A p \in Procs :
       EnterFails(p) => memento'.focusZoomLevel = pre.focusZoomLevel]_vars

\* `part` is as the hide-direction command of hideChrome leaves it: full
\* screen or centered layout on, a bar or the panel closed. Only the
\* commands of hideChrome and restoreChrome change these parts, so the part
\* is in this state exactly when a hide-direction invocation has not been
\* answered by an inverse one yet.
HideOutstanding(part) ==
  IF part \in {"fullScreen", "centeredLayout"} THEN chrome[part] ELSE ~chrome[part]

\* Frame p invokes the inverse command of `part` in this step.
InvokesInverse(p, part) ==
  Steps(p) /\ frames[p].pc = RestoreStepOf[part] /\ chrome'[part] # chrome[part]

\* C39: over every sequence of enter, exit and toggle calls and whatever
\* host commands fail, the inverse command of a best-effort part is invoked
\* at most once per hide-direction invocation: it is invoked only while a
\* hide of that part is outstanding, also in an exit called again after an
\* exit that failed part-way.
C39_InverseAtMostOncePerHide ==
  [][\A p \in Procs : \A part \in DOMAIN RestoreStepOf :
       InvokesInverse(p, part) => HideOutstanding(part)]_vars

\* The active-editor listener runs onActiveEditorChange on an editor in this
\* step, in an Active session whose configuration was changed (and the
\* change handled by onConfigChange) since enter read it.
ActiveChangeAfterConfigChange ==
  /\ Idle /\ isActive /\ disposables = 4 /\ frames' = frames
  /\ activeTextEditor' # activeTextEditor /\ activeTextEditor' # NoEditor
  /\ focusModeCfg # pre.config

\* C38: while Active, once a configuration change has been handled, an
\* active-editor change gives the newly active editor the line-number style
\* of the configuration read last (the one onConfigChange read), and leaves
\* its style alone when that policy is inherit; not the style of the
\* configuration enter read.
C38_ActiveChangeUsesLatestConfig ==
  [][ActiveChangeAfterConfigChange
       => LET style == toLineNumberStyle(focusModeCfg.lineNumbers)
              editor == activeTextEditor' IN
          editorOptions'[editor] =
            IF IsDefined(style) THEN ValueOf(style) ELSE editorOptions[editor]]_vars

\* The split window in which awaited host calls settle and a pending timer
\* fires.
FairSplitSpec ==
  /\ SplitSpec
  /\ WF_vars(\E p \in Procs : SplitStep(p))
  /\ WF_vars(TimerFires)

\* Editor e has received a selection-changed event in the Active session and
\* its debounced recompute is pending.
SelectionPending(e) ==
  isActive /\ disposables = 4 /\ \E t \in timers : t.editor = e

\* C37: while the session stays Active and the selection events eventually
\* stop, every editor that received a selection-changed event eventually
\* carries the dimmed ranges that updateDecorations computes from its
\* current carets, however the selection events of different editors
\* interleave (an exit that begins ends the obligation).
C37_EverySelectionEventuallyApplied ==
  <>[][selections' = selections]_vars
    => \A e \in Editors :
         SelectionPending(e)
           ~> (decorations[e] = updateDecorations(e) \/ ~isActive \/ disposables = 0)

\* C40: when enter completes successfully, the editor that is active at that
\* moment carries the dimmed ranges of its carets and the line-number style
\* of the configuration enter read, whatever active-editor changes happened
\* while enter was suspended at an awaited host call.
C40_ActiveEditorDimmedAfterEnter ==
  [][\A p \in Procs :
       EnterSucceeds(p) /\ activeTextEditor' # NoEditor
         => LET editor == activeTextEditor'
                style == toLineNumberStyle(ConfigOf(p).lineNumbers) IN
            /\ decorations'[editor] = updateDecorations(editor)
            /\ IsDefined(style) => editorOptions'[editor] = ValueOf(style)]_vars

====
